---- MODULE Spec2Model ----
(***************************************************************************)
(* Execution guard: policy evaluator, authority pipeline, token registry   *)
(* and execution kernel (the single spawn site).                           *)
(*                                                                         *)
(* Hashes (SHA-256) are modelled as injective: the hash of a value is the  *)
(* canonical form of that value.  An ED25519 signature is the pair of the  *)
(* signed payload and the key that signed it; it verifies under a public   *)
(* key exactly when the payload and the key agree.                         *)
(* Instants are milliseconds since the start; the clock advances in ticks  *)
(* of TickMs.                                                              *)
(***************************************************************************)
EXTENDS Integers, Sequences, FiniteSets, TLC

\* ------------------------------------------------------------------ bounds
MaxTicks == 3
TickMs == 150000
MaxIssued == 2
MaxRunning == 2
MaxStored == 2
NumHosts == 2
HalfMinuteMs == 30000
MaxLines == 3

\* --------------------------------------------------------- program constants
TOKEN_TTL_MS == 300000
MINUTE_MS == 60000

GUARD_VERSION == "0.4.0"
\* guard_version default of the canonical proposal
PROPOSAL_GUARD_VERSION == "0.3.0"
POLICY_PATH == "./policy.yaml"

STRICT == "STRICT"
PERMISSIVE == "PERMISSIVE"
GateModes == {STRICT, PERMISSIVE}

Commands == {"echo", "sudo"}
ArgVectors == {<<"a">>, <<"b">>}
Hosts == 1..NumHosts

\* A token id and a key the pipeline never produces (a forger's own).
ForgedId == 0
AttackerKey == 0
GarbageKey == -1

\* -------------------------------------------------------------- policy files
\* A rule entry of policy.yaml; NullRule is an entry that is not a mapping.
Rule(command, hasArgs, args, scope) ==
  [isObject |-> TRUE, command |-> command, hasArgs |-> hasArgs, args |-> args, scope |-> scope]

NullRule == [isObject |-> FALSE, command |-> "", hasArgs |-> FALSE, args |-> <<>>, scope |-> "none"]

\* What yaml.parse gives for a file: a mapping with `default` and `rules`, a
\* value that is no mapping, or a parse error.
Doc(default, rules) ==
  [parsed |-> "object", default |-> default, rulesIsArray |-> TRUE, rules |-> rules]

\* policy.yaml contents the file can have; index 0 stands for "no file".
PolicyDocs ==
  << Doc("DENY", << Rule("echo", TRUE, <<"*">>, "safe"),
                    Rule("sudo", TRUE, <<"a">>, "admin") >>),
     Doc("DENY", << Rule("echo", TRUE, <<"a">>, "none") >>),
     Doc("ALLOW", << Rule("sudo", FALSE, <<>>, "net") >>),
     [parsed |-> "error", default |-> "ALLOW", rulesIsArray |-> TRUE,
      rules |-> << Rule("echo", FALSE, <<>>, "safe") >>],
     [parsed |-> "scalar", default |-> "ALLOW", rulesIsArray |-> TRUE,
      rules |-> << Rule("echo", FALSE, <<>>, "safe") >>],
     Doc("none", << Rule("echo", FALSE, <<>>, "safe"), Rule("sudo", FALSE, <<>>, "safe") >>),
     Doc("allow", << Rule("echo", FALSE, <<>>, "safe"), Rule("sudo", FALSE, <<>>, "safe") >>),
     [parsed |-> "object", default |-> "ALLOW", rulesIsArray |-> FALSE,
      rules |-> << Rule("echo", FALSE, <<>>, "safe") >>],
     Doc("ALLOW", << Rule("sudo", FALSE, <<>>, "safe"), NullRule,
                     Rule("echo", FALSE, <<>>, "safe") >>),
     Doc("DENY", << Rule("echo", TRUE, <<>>, "fs"),
                    Rule("echo", TRUE, <<"a", "*">>, "net"),
                    Rule("echo", TRUE, <<"*", "b">>, "safe"),
                    Rule("sudo", TRUE, <<"*">>, "admin"),
                    Rule("sudo", FALSE, <<>>, "safe") >>),
     Doc("DENY", << Rule("echo", TRUE, <<"a">>, "safe"),
                    Rule("echo", TRUE, <<"b">>, "net"),
                    Rule("sudo", TRUE, <<"a">>, "safe"),
                    Rule("sudo", TRUE, <<"b">>, "admin") >>) >>

PolicyFiles == 0..Len(PolicyDocs)

VARIABLES
  now,           \* wall clock (ms)
  policyFile,    \* current content of policy.yaml (index into PolicyDocs, 0 = missing)
  host,          \* runtime identity (node_version, runner_os)
  usedTokenIds,  \* token_registry: in-memory Set of used token ids
  nextId,        \* number of identifiers handed out so far (uuidv7 is fresh)
  pipe,          \* result of the latest runAuthorityPipeline call, held by its caller
  kpc,           \* position of the executeWithAuthority activation that is running
  cur,           \* arguments of that activation
  kerr,          \* error_type of the denial it is raising
  running,       \* kernel calls suspended on their child's exit
  spawned,       \* spawned[id]: how often spawn() ran under token id
  lastAudit,     \* the record most recently handed to appendAuditRecord
  presented,     \* ids of the issued tokens that were presented untouched and passed the replay step
  erq,           \* the input of the evaluator call under study
  eres,          \* what that call gave
  store,         \* token store: proposal_hash -> stored token
  ares,          \* the executeWithOpenClawAuthority call: its position, its inputs, its result
  main,          \* the run of the entry point: its position, its inputs, its exit code
  usedTokensFile, \* .execution_audit/used_tokens.ndjson: its lines
  trail,         \* the audit records handed to the sinks and the kernel's acts, in order
  suspended      \* adapter calls that await their kernel call's child

coreVars ==
  <<now, policyFile, host, usedTokenIds, nextId, pipe, kpc, cur, kerr, running, spawned,
    lastAudit, presented>>
evalVars == <<erq, eres>>
adapterVars == <<store, ares, main, usedTokensFile, trail, suspended>>

vars == <<coreVars, evalVars, adapterVars>>

TokenIds == 0..MaxIssued

\* ----------------------------------------------------------- canonical forms
\* SHA-256 of the file content, or the fixed string for a missing file.
hashPolicyFile(f) == IF f = 0 THEN <<"policy_not_found">> ELSE <<"sha256", f>>

\* now.setSeconds(0, 0)
floorToMinute(t) == t - (t % MINUTE_MS)

buildCanonicalProposal(command, args, f, t) ==
  [command |-> command, args |-> args, policy_path |-> POLICY_PATH,
   policy_hash |-> hashPolicyFile(f), guard_version |-> PROPOSAL_GUARD_VERSION,
   timestamp_floor |-> floorToMinute(t)]

\* (variant) a hash over the arguments as a set
canonicalHash_ArgsUnordered(p) ==
  <<{p.args[k] : k \in 1..Len(p.args)}, p.command, p.guard_version, p.policy_hash,
    p.policy_path, p.timestamp_floor>>

\* sorted keys, array order preserved
canonicalHash(p) ==
  <<p.args, p.command, p.guard_version, p.policy_hash, p.policy_path, p.timestamp_floor>>

buildEnvironmentFingerprint(h, f) == <<h, hashPolicyFile(f)>>

\* ---------------------------------------------------------- policy evaluator
NoPolicy == [parsed |-> "null", default |-> "DENY", rulesIsArray |-> TRUE, rules |-> <<>>]

\* the Policy, or NoPolicy for null
loadPolicy(f) ==
  IF f = 0 THEN NoPolicy
  ELSE IF PolicyDocs[f].parsed # "object" THEN NoPolicy
  ELSE IF PolicyDocs[f].default \notin {"DENY", "ALLOW"} THEN NoPolicy
  ELSE IF ~PolicyDocs[f].rulesIsArray THEN NoPolicy
  ELSE PolicyDocs[f]

\* (variant) a '*' element taken as "the rest of the arguments"
matchesRule_StarMatchesRest(command, args, rule) ==
  IF command # rule.command THEN FALSE
  ELSE IF ~rule.hasArgs THEN TRUE
  ELSE IF Len(rule.args) = 1 /\ rule.args[1] = "*" THEN TRUE
  ELSE IF Len(rule.args) > 0 /\ rule.args[Len(rule.args)] = "*"
       THEN /\ Len(args) >= Len(rule.args) - 1
            /\ \A i \in 1..(Len(rule.args) - 1) : args[i] = rule.args[i] \/ rule.args[i] = "*"
  ELSE IF Len(args) # Len(rule.args) THEN FALSE
  ELSE \A i \in 1..Len(args) : args[i] = rule.args[i] \/ rule.args[i] = "*"

matchesRule(command, args, rule) ==
  IF command # rule.command THEN FALSE
  ELSE IF ~rule.hasArgs THEN TRUE
  ELSE IF Len(rule.args) = 1 /\ rule.args[1] = "*" THEN TRUE
  ELSE IF Len(args) # Len(rule.args) THEN FALSE
  ELSE \A i \in 1..Len(args) : args[i] = rule.args[i] \/ rule.args[i] = "*"

\* index of the first rule at or after i that matches, 0 when none does, -1
\* when an entry that is no mapping is reached first (rule.command throws)
RECURSIVE firstMatch(_, _, _, _)
firstMatch(command, args, rules, i) ==
  IF i > Len(rules) THEN 0
  ELSE IF ~rules[i].isObject THEN 0 - 1
  ELSE IF matchesRule(command, args, rules[i]) THEN i
  ELSE firstMatch(command, args, rules, i + 1)

\* (variant) the last matching rule decides
evaluate_LastMatch(command, args, f) ==
  LET policy == loadPolicy(f)
      hits == {i \in 1..Len(policy.rules) :
                 policy.rules[i].isObject /\ matchesRule(command, args, policy.rules[i])}
      m == IF hits = {} THEN 0 ELSE CHOOSE i \in hits : \A j \in hits : j <= i
  IN  IF policy.parsed # "object"
      THEN [verdict |-> "DENY", matched |-> 0, scope |-> "none",
            reason |-> "no_valid_policy", threw |-> FALSE]
      ELSE IF m # 0
      THEN [verdict |-> "ALLOW", matched |-> m, scope |-> policy.rules[m].scope,
            reason |-> "policy_match", threw |-> FALSE]
      ELSE [verdict |-> policy.default, matched |-> 0, scope |-> "none",
            reason |-> "no_rule_matched", threw |-> FALSE]

\* the EvaluationResult; threw: evaluate raised instead of returning
evaluate(command, args, f) ==
  LET policy == loadPolicy(f)
      m == firstMatch(command, args, policy.rules, 1)
  IN  IF policy.parsed # "object"
      THEN [verdict |-> "DENY", matched |-> 0, scope |-> "none",
            reason |-> "no_valid_policy", threw |-> FALSE]
      ELSE IF m < 0
      THEN [verdict |-> "DENY", matched |-> 0, scope |-> "none",
            reason |-> "TypeError", threw |-> TRUE]
      ELSE IF m # 0
      THEN [verdict |-> "ALLOW", matched |-> m, scope |-> policy.rules[m].scope,
            reason |-> "policy_match", threw |-> FALSE]
      ELSE [verdict |-> policy.default, matched |-> 0, scope |-> "none",
            reason |-> "no_rule_matched", threw |-> FALSE]

\* scope_policy.getRuleScope: the first rule for the command, whatever its
\* args; 0 when there is none, -1 when an entry that is no mapping comes first
RECURSIVE firstRuleFor(_, _, _)
firstRuleFor(command, rules, i) ==
  IF i > Len(rules) THEN 0
  ELSE IF ~rules[i].isObject THEN 0 - 1
  ELSE IF rules[i].command = command THEN i
  ELSE firstRuleFor(command, rules, i + 1)

\* "null" for null; every exception is caught and gives null
getRuleScope(command, f) ==
  IF f = 0 THEN "null"
  ELSE IF PolicyDocs[f].parsed = "error" THEN "null"
  ELSE IF PolicyDocs[f].parsed # "object" \/ ~PolicyDocs[f].rulesIsArray THEN "null"
  ELSE LET rules == PolicyDocs[f].rules
           m == firstRuleFor(command, rules, 1)
       IN  IF m <= 0 THEN "null"
           ELSE IF rules[m].scope = "none" THEN "safe"
           ELSE rules[m].scope

\* ------------------------------------------------------------------- tokens
Payload(tok) ==
  [token_id |-> tok.token_id, proposal_hash |-> tok.proposal_hash,
   policy_hash |-> tok.policy_hash,
   environment_fingerprint |-> tok.environment_fingerprint,
   decision |-> tok.decision, expires_at |-> tok.expires_at,
   issued_at |-> tok.issued_at, audited_permit |-> tok.audited_permit,
   gate_mode |-> tok.gate_mode]

cryptoSign(payload, key) == [signed |-> payload, by |-> key]

cryptoVerify(payload, publicKey, signature) ==
  signature.signed = payload /\ signature.by = publicKey

WithSignature(payload, signature, publicKey) ==
  [token_id |-> payload.token_id, proposal_hash |-> payload.proposal_hash,
   policy_hash |-> payload.policy_hash,
   environment_fingerprint |-> payload.environment_fingerprint,
   decision |-> payload.decision, expires_at |-> payload.expires_at,
   issued_at |-> payload.issued_at, audited_permit |-> payload.audited_permit,
   gate_mode |-> payload.gate_mode,
   issuer_signature |-> signature, public_key_hex |-> publicKey]

NoProposal == buildCanonicalProposal("", <<>>, 0, 0)

NoToken ==
  WithSignature(
    [token_id |-> ForgedId, proposal_hash |-> canonicalHash(NoProposal),
     policy_hash |-> hashPolicyFile(0),
     environment_fingerprint |-> buildEnvironmentFingerprint(1, 0),
     decision |-> "HOLD", expires_at |-> -1, issued_at |-> -1,
     audited_permit |-> FALSE, gate_mode |-> STRICT],
    cryptoSign([token_id |-> ForgedId], GarbageKey), GarbageKey)

\* -------------------------------------------------------- authority pipeline
\* (variant) allow_with_audit honoured whatever the gate mode
pipelineDecision_AuditAnyMode(coreAllowed, mode, allowWithAudit) ==
  IF coreAllowed THEN "ALLOW"
  ELSE IF allowWithAudit THEN "ALLOW"
  ELSE IF mode = PERMISSIVE THEN "HOLD"
  ELSE "STOP"

\* (variant) a miss under STRICT let through
pipelineDecision_MissAllowed(coreAllowed, mode, allowWithAudit) ==
  IF coreAllowed THEN "ALLOW"
  ELSE IF mode = PERMISSIVE /\ allowWithAudit THEN "ALLOW"
  ELSE IF mode = PERMISSIVE THEN "HOLD"
  ELSE "ALLOW"

\* Step 4 of _pipeline: the mode-gated decision.
pipelineDecision(coreAllowed, mode, allowWithAudit) ==
  IF coreAllowed THEN "ALLOW"
  ELSE IF mode = PERMISSIVE /\ allowWithAudit THEN "ALLOW"
  ELSE IF mode = PERMISSIVE THEN "HOLD"
  ELSE "STOP"

\* Steps 5 and 6 of _pipeline: the signed token for an ALLOW or HOLD decision.
issueToken(tokenId, key, decision, proposalHash, policyHash, envFingerprint, t, mode, allowWithAudit, coreAllowed) ==
  LET tokenPayload ==
        [token_id |-> tokenId, proposal_hash |-> proposalHash,
         policy_hash |-> policyHash, environment_fingerprint |-> envFingerprint,
         decision |-> decision, expires_at |-> t + TOKEN_TTL_MS, issued_at |-> t,
         audited_permit |-> (allowWithAudit /\ ~coreAllowed), gate_mode |-> mode]
  IN  WithSignature(tokenPayload, cryptoSign(tokenPayload, key), key)

\* (variant) the token and the proposal attached to every result
resultOf_AlwaysToken(decision, proposalHash, reason, token, proposal, err, call) ==
  [decision |-> decision, proposal_hash |-> proposalHash, reason |-> reason,
   hasToken |-> TRUE, token |-> token,
   hasProposal |-> TRUE, proposal |-> proposal,
   error |-> err, call |-> call]

\* The PipelineResult of one return statement of the pipeline: a STOP result
\* carries neither token nor proposal, an ALLOW or HOLD result carries both.
resultOf(decision, proposalHash, reason, token, proposal, err, call) ==
  IF decision = "STOP"
  THEN [decision |-> "STOP", proposal_hash |-> proposalHash, reason |-> reason,
        hasToken |-> FALSE, token |-> NoToken,
        hasProposal |-> FALSE, proposal |-> NoProposal,
        error |-> err, call |-> call]
  ELSE [decision |-> decision, proposal_hash |-> proposalHash, reason |-> reason,
        hasToken |-> TRUE, token |-> token,
        hasProposal |-> TRUE, proposal |-> proposal,
        error |-> err, call |-> call]

\* What runAuthorityPipeline returns.  throwAt: where _pipeline raises an
\* exception besides the evaluator's own, if it does.  call: the inputs of the
\* call and what the evaluator and the scope lookup gave for them, kept beside
\* the result.
pipelineResult(command, args, mode, allowWithAudit, throwAt, f, h, t, id) ==
  LET proposal == buildCanonicalProposal(command, args, f, t)
      proposalHash == canonicalHash(proposal)
      policyHash == hashPolicyFile(f)
      envFingerprint == buildEnvironmentFingerprint(h, f)
      evalResult == evaluate(command, args, f)
      coreAllowed == evalResult.verdict = "ALLOW"
      decision == pipelineDecision(coreAllowed, mode, allowWithAudit)
      call == [command |-> command, args |-> args, verdict |-> evalResult.verdict,
               allowWithAudit |-> allowWithAudit, gate_mode |-> mode,
               scope |-> getRuleScope(command, f),
               matched |-> evalResult.matched, default |-> loadPolicy(f).default,
               threw |-> \/ throwAt = "build"
                         \/ evalResult.threw
                         \/ throwAt = "sign" /\ decision # "STOP"]
      token == issueToken(id, id, decision, proposalHash, policyHash,
                          envFingerprint, t, mode, allowWithAudit, coreAllowed)
  IN  IF throwAt = "build" \/ evalResult.threw
      THEN resultOf("STOP", <<"error">>, "pipeline_error", NoToken, NoProposal, TRUE, call)
      ELSE IF decision = "STOP"
      THEN resultOf("STOP", proposalHash, evalResult.reason, NoToken, NoProposal, FALSE, call)
      ELSE IF throwAt = "sign"
      THEN resultOf("STOP", <<"error">>, "pipeline_error", NoToken, NoProposal, TRUE, call)
      ELSE resultOf(decision, proposalHash, evalResult.reason, token, proposal, FALSE, call)

NoResult ==
  [decision |-> "STOP", proposal_hash |-> <<"error">>, reason |-> "",
   hasToken |-> FALSE, token |-> NoToken, hasProposal |-> FALSE, proposal |-> NoProposal,
   error |-> FALSE,
   call |-> [command |-> "", args |-> <<>>, verdict |-> "DENY",
             allowWithAudit |-> FALSE, gate_mode |-> STRICT, scope |-> "null",
             matched |-> 0, default |-> "DENY", threw |-> FALSE]]

ThrowPoints == {"none", "build", "sign"}

NoAudit ==
  [event |-> "none", token_id |-> ForgedId, command |-> "", args |-> <<>>,
   gate_mode |-> STRICT, timestamp |-> 0]

\* (variant) a catch block that returns STOP without logging
pipelineAudit_SilentError(r, command, args, mode, t, previous) ==
  IF r.reason = "pipeline_error" THEN previous
  ELSE [event |-> IF r.decision = "STOP" THEN "STOP"
                  ELSE IF r.decision = "HOLD" THEN "TOKEN_ISSUED_HOLD"
                  ELSE "TOKEN_ISSUED_ALLOW",
        token_id |-> IF r.hasToken THEN r.token.token_id ELSE ForgedId,
        command |-> command, args |-> args, gate_mode |-> mode, timestamp |-> t]

\* (variant) a pipeline that keeps no record of the tokens it issues
pipelineAudit_NoIssuance(r, command, args, mode, t, previous) ==
  [event |-> IF r.reason = "pipeline_error" THEN "PIPELINE_ERROR"
             ELSE IF r.decision = "STOP" THEN "STOP"
             ELSE "none",
   token_id |-> IF r.hasToken THEN r.token.token_id ELSE ForgedId,
   command |-> command, args |-> args, gate_mode |-> mode, timestamp |-> t]

\* The record that the run giving result r hands to appendAuditRecord:
\* PIPELINE_ERROR from the catch block, STOP on a miss under STRICT,
\* TOKEN_ISSUED_<decision> after signing.
pipelineAudit(r, command, args, mode, t, previous) ==
  [event |-> IF r.reason = "pipeline_error" THEN "PIPELINE_ERROR"
             ELSE IF r.decision = "STOP" THEN "STOP"
             ELSE IF r.decision = "HOLD" THEN "TOKEN_ISSUED_HOLD"
             ELSE "TOKEN_ISSUED_ALLOW",
   token_id |-> IF r.hasToken THEN r.token.token_id ELSE ForgedId,
   command |-> command, args |-> args, gate_mode |-> mode, timestamp |-> t]

RunPipeline(command, args, mode, allowWithAudit, throwAt) ==
  /\ kpc = "idle"
  /\ nextId < MaxIssued
  /\ \E r \in {pipelineResult(command, args, mode, allowWithAudit, throwAt,
                               policyFile, host, now, nextId + 1)} :
         /\ pipe' = r
         /\ nextId' = IF r.hasToken THEN nextId + 1 ELSE nextId
         /\ lastAudit' = pipelineAudit(r, command, args, mode, now, lastAudit)
  /\ UNCHANGED <<now, policyFile, host, usedTokenIds, kpc, cur, kerr, running, spawned,
                 presented, evalVars>>

\* ------------------------------------------------------------ token registry
\* (variant) a registry that forgets
isTokenUsed_Never(used, tokenId) == FALSE

\* (variant) a registry in which one use blocks every token
isTokenUsed_AnyUsed(used, tokenId) == used # {}

isTokenUsed(used, tokenId) == tokenId \in used

\* (variant) a registry that takes the file's records for its set
initRegistry_Reload(used, records) == records

\* A line of used_tokens.ndjson as initRegistry meets it: a JSON object (with
\* or without token_id, with or without expires_at), a blank line, a line
\* JSON.parse fails on, or the JSON value null, which has no properties.
NoExpiry == [kind |-> "absent", at |-> 0]
\* new Date of a string that is no date: no comparison with it is true
InvalidDate == [kind |-> "invalid", at |-> 0]
ExpiresAt(t) == [kind |-> "instant", at |-> t]

Record(tokenId, expires) ==
  [kind |-> "record", hasTokenId |-> TRUE, token_id |-> tokenId, expires_at |-> expires]
RecordWithoutId ==
  [kind |-> "record", hasTokenId |-> FALSE, token_id |-> ForgedId, expires_at |-> NoExpiry]
BlankLine ==
  [kind |-> "blank", hasTokenId |-> FALSE, token_id |-> ForgedId, expires_at |-> NoExpiry]
MalformedLine ==
  [kind |-> "malformed", hasTokenId |-> FALSE, token_id |-> ForgedId, expires_at |-> NoExpiry]
NullLine ==
  [kind |-> "null", hasTokenId |-> FALSE, token_id |-> ForgedId, expires_at |-> NoExpiry]

\* (variant) a cleanup that drops a record at the instant it expires
recordExpired_AtInstant(line, t) == line.expires_at.kind = "instant" /\ t >= line.expires_at.at

\* if (now > expiresAt) continue
recordExpired(line, t) == line.expires_at.kind = "instant" /\ t > line.expires_at.at

\* JSON.parse(line), record.token_id: the line on which the loop throws
lineThrows(line) == line.kind \in {"malformed", "null"}

\* The for loop of initRegistry: the ids it adds. A throw leaves the loop
\* for the catch around it; what was added before stays.
RECURSIVE loadedIds(_, _)
loadedIds(lines, t) ==
  IF lines = <<>> THEN {}
  ELSE LET line == Head(lines)
       IN  IF line.kind = "blank" THEN loadedIds(Tail(lines), t)
           ELSE IF lineThrows(line) THEN {}
           ELSE IF ~line.hasTokenId THEN loadedIds(Tail(lines), t)
           ELSE IF recordExpired(line, t) THEN loadedIds(Tail(lines), t)
           ELSE {line.token_id} \cup loadedIds(Tail(lines), t)

\* existsSync and readFileSync: no file, a file that cannot be read, a file read
FileStates == {"missing", "unreadable", "read"}

readRecords(fileState, lines, t) == IF fileState = "read" THEN loadedIds(lines, t) ELSE {}

\* initRegistry: the ids of the records it read join the set
initRegistry(used, records) == used \cup records

\* what becomes of the attempt to persist a record: written, or the directory
\* could not be made, or the append failed
PersistOutcomes == {"written", "mkdir_failed", "append_failed"}

\* the file after markTokenUsed's try block: the record it appends has the
\* token_id, used_at and the fields of the audit entry, and no expires_at
persistTokenRecord(file, tokenId, outcome) ==
  IF outcome = "written" THEN Append(file, Record(tokenId, NoExpiry)) ELSE file

\* (variant) a registry that records nothing
markTokenUsed_Noop(used, tokenId) == used

markTokenUsed(used, tokenId) == used \cup {tokenId}

\* --------------------------------------------------------- execution kernel
\* (variant) a verification that looks at the signer only, not at what was signed
signatureValid_SignerOnly(token) == token.issuer_signature.by = token.public_key_hex

signatureValid(token) ==
  cryptoVerify(Payload(token), token.public_key_hex, token.issuer_signature)

\* (variant) the chain without its policy-hash step
verifyToken_NoPolicyStep(token, proposal, t, used, f, h) ==
  LET currentEnvFingerprint == buildEnvironmentFingerprint(h, f)
  IN  IF t > token.expires_at THEN "TOKEN_EXPIRED"
      ELSE IF token.decision # "ALLOW" THEN "DECISION_NOT_ALLOW"
      ELSE IF isTokenUsed(used, token.token_id) THEN "TOKEN_REPLAYED"
      ELSE IF token.proposal_hash # canonicalHash(proposal) THEN "PROPOSAL_HASH_MISMATCH"
      ELSE IF token.environment_fingerprint # currentEnvFingerprint
           THEN "ENV_FINGERPRINT_MISMATCH"
      ELSE IF ~signatureValid(token) THEN "SIGNATURE_INVALID"
      ELSE "OK"

\* (variant) the chain without its replay step
verifyToken_NoReplayStep(token, proposal, t, used, f, h) ==
  LET currentEnvFingerprint == buildEnvironmentFingerprint(h, f)
  IN  IF t > token.expires_at THEN "TOKEN_EXPIRED"
      ELSE IF token.decision # "ALLOW" THEN "DECISION_NOT_ALLOW"
      ELSE IF token.proposal_hash # canonicalHash(proposal) THEN "PROPOSAL_HASH_MISMATCH"
      ELSE IF token.policy_hash # hashPolicyFile(f) THEN "POLICY_HASH_MISMATCH"
      ELSE IF token.environment_fingerprint # currentEnvFingerprint
           THEN "ENV_FINGERPRINT_MISMATCH"
      ELSE IF ~signatureValid(token) THEN "SIGNATURE_INVALID"
      ELSE "OK"

\* (variant) the replay step ahead of the decision gate
verifyToken_ReplayBeforeDecision(token, proposal, t, used, f, h) ==
  LET currentEnvFingerprint == buildEnvironmentFingerprint(h, f)
  IN  IF t > token.expires_at THEN "TOKEN_EXPIRED"
      ELSE IF isTokenUsed(used, token.token_id) THEN "TOKEN_REPLAYED"
      ELSE IF token.decision # "ALLOW" THEN "DECISION_NOT_ALLOW"
      ELSE IF token.proposal_hash # canonicalHash(proposal) THEN "PROPOSAL_HASH_MISMATCH"
      ELSE IF token.policy_hash # hashPolicyFile(f) THEN "POLICY_HASH_MISMATCH"
      ELSE IF token.environment_fingerprint # currentEnvFingerprint
           THEN "ENV_FINGERPRINT_MISMATCH"
      ELSE IF ~signatureValid(token) THEN "SIGNATURE_INVALID"
      ELSE "OK"

\* (variant) the chain without its decision gate
verifyToken_NoDecisionGate(token, proposal, t, used, f, h) ==
  LET currentEnvFingerprint == buildEnvironmentFingerprint(h, f)
  IN  IF t > token.expires_at THEN "TOKEN_EXPIRED"
      ELSE IF isTokenUsed(used, token.token_id) THEN "TOKEN_REPLAYED"
      ELSE IF token.proposal_hash # canonicalHash(proposal) THEN "PROPOSAL_HASH_MISMATCH"
      ELSE IF token.policy_hash # hashPolicyFile(f) THEN "POLICY_HASH_MISMATCH"
      ELSE IF token.environment_fingerprint # currentEnvFingerprint
           THEN "ENV_FINGERPRINT_MISMATCH"
      ELSE IF ~signatureValid(token) THEN "SIGNATURE_INVALID"
      ELSE "OK"

\* Steps 1 to 7 of executeWithAuthority, in the order of the code: the
\* error_type of the ExecutionDeniedError it throws, or "OK".
\* (variant) the environment step ahead of the policy step
verifyToken_EnvBeforePolicy(token, proposal, t, used, f, h) ==
  LET currentEnvFingerprint == buildEnvironmentFingerprint(h, f)
  IN  IF t > token.expires_at THEN "TOKEN_EXPIRED"
      ELSE IF token.decision # "ALLOW" THEN "DECISION_NOT_ALLOW"
      ELSE IF isTokenUsed(used, token.token_id) THEN "TOKEN_REPLAYED"
      ELSE IF token.proposal_hash # canonicalHash(proposal) THEN "PROPOSAL_HASH_MISMATCH"
      ELSE IF token.environment_fingerprint # currentEnvFingerprint
           THEN "ENV_FINGERPRINT_MISMATCH"
      ELSE IF token.policy_hash # hashPolicyFile(f) THEN "POLICY_HASH_MISMATCH"
      ELSE IF ~signatureValid(token) THEN "SIGNATURE_INVALID"
      ELSE "OK"

\* (variant) a TTL step that turns the token away at the instant it expires
verifyToken_ExpiredAtInstant(token, proposal, t, used, f, h) ==
  LET currentEnvFingerprint == buildEnvironmentFingerprint(h, f)
  IN  IF t >= token.expires_at THEN "TOKEN_EXPIRED"
      ELSE IF token.decision # "ALLOW" THEN "DECISION_NOT_ALLOW"
      ELSE IF isTokenUsed(used, token.token_id) THEN "TOKEN_REPLAYED"
      ELSE IF token.proposal_hash # canonicalHash(proposal) THEN "PROPOSAL_HASH_MISMATCH"
      ELSE IF token.policy_hash # hashPolicyFile(f) THEN "POLICY_HASH_MISMATCH"
      ELSE IF token.environment_fingerprint # currentEnvFingerprint
           THEN "ENV_FINGERPRINT_MISMATCH"
      ELSE IF ~signatureValid(token) THEN "SIGNATURE_INVALID"
      ELSE "OK"

verifyToken(token, proposal, t, used, f, h) ==
  LET currentEnvFingerprint == buildEnvironmentFingerprint(h, f)
  IN  IF t > token.expires_at THEN "TOKEN_EXPIRED"
      ELSE IF token.decision # "ALLOW" THEN "DECISION_NOT_ALLOW"
      ELSE IF isTokenUsed(used, token.token_id) THEN "TOKEN_REPLAYED"
      ELSE IF token.proposal_hash # canonicalHash(proposal) THEN "PROPOSAL_HASH_MISMATCH"
      ELSE IF token.policy_hash # hashPolicyFile(f) THEN "POLICY_HASH_MISMATCH"
      ELSE IF token.environment_fingerprint # currentEnvFingerprint
           THEN "ENV_FINGERPRINT_MISMATCH"
      ELSE IF ~signatureValid(token) THEN "SIGNATURE_INVALID"
      ELSE "OK"

\* The statements of executeWithAuthority that do work, in the order of the
\* code: what each calls, whether that reads the policy file, hashes,
\* fingerprints or verifies a signature, and the error_type it throws with.
KernelStatement(calls, expensive, throws) ==
  [calls |-> calls, expensive |-> expensive, throws |-> throws]

KernelStatements ==
  << KernelStatement("buildEnvironmentFingerprint", TRUE, "none"),
     KernelStatement("now > expiresAt", FALSE, "TOKEN_EXPIRED"),
     KernelStatement("token.decision !== 'ALLOW'", FALSE, "DECISION_NOT_ALLOW"),
     KernelStatement("isTokenUsed", FALSE, "TOKEN_REPLAYED"),
     KernelStatement("canonicalHash", TRUE, "PROPOSAL_HASH_MISMATCH"),
     KernelStatement("hashPolicyFile", TRUE, "POLICY_HASH_MISMATCH"),
     KernelStatement("token.environment_fingerprint !== currentEnvFingerprint", FALSE,
                     "ENV_FINGERPRINT_MISMATCH"),
     KernelStatement("cryptoVerify", TRUE, "SIGNATURE_INVALID") >>

\* the statements a call has run when it ends its verification with errorType
statementsRun(errorType) ==
  IF \E i \in 1..Len(KernelStatements) : KernelStatements[i].throws = errorType
  THEN SubSeq(KernelStatements, 1,
              CHOOSE i \in 1..Len(KernelStatements) : KernelStatements[i].throws = errorType)
  ELSE KernelStatements

NoCall == [command |-> "", args |-> <<>>, proposal |-> NoProposal, token |-> NoToken]

\* executeWithAuthority is entered; the seven steps run without suspension.
KernelCall(command, args, proposal, token) ==
  /\ kpc = "idle"
  /\ Cardinality(running) < MaxRunning
  /\ cur' = [command |-> command, args |-> args, proposal |-> proposal, token |-> token]
  /\ kerr' = verifyToken(token, proposal, now, usedTokenIds, policyFile, host)
  /\ kpc' = IF kerr' = "OK" THEN "verified" ELSE "denied"
  /\ presented' =
       IF /\ pipe.hasToken /\ token = pipe.token
          /\ kerr' \notin {"TOKEN_EXPIRED", "DECISION_NOT_ALLOW", "TOKEN_REPLAYED"}
       THEN presented \cup {token.token_id}
       ELSE presented
  /\ UNCHANGED <<now, policyFile, host, usedTokenIds, nextId, pipe, running, spawned,
                 lastAudit, evalVars>>

\* emitAuditLog(executed: false); throw err
KernelThrow ==
  /\ kpc = "denied"
  /\ kpc' = "idle"
  /\ cur' = NoCall
  /\ kerr' = "OK"
  /\ UNCHANGED <<now, policyFile, host, usedTokenIds, nextId, pipe, running, spawned,
                 presented, evalVars>>

\* markTokenUsed(token.token_id, ...)
KernelMarkUsed ==
  /\ kpc = "verified"
  /\ usedTokenIds' = markTokenUsed(usedTokenIds, cur.token.token_id)
  /\ kpc' = "marked"
  /\ UNCHANGED <<now, policyFile, host, nextId, pipe, cur, kerr, running, spawned,
                 lastAudit, presented, evalVars>>

\* emitAuditLog(executed: true); spawn(command, args); the call suspends
KernelSpawn ==
  /\ kpc = "marked"
  /\ spawned' = [spawned EXCEPT ![cur.token.token_id] = @ + 1]
  /\ running' = running \cup {cur.token.token_id}
  /\ kpc' = "idle"
  /\ cur' = NoCall
  /\ UNCHANGED <<now, policyFile, host, usedTokenIds, nextId, pipe, kerr, lastAudit, presented, evalVars>>

\* What became of the child: it exited with a code, a signal ended it, or it
\* could not be started.
MaxExitCode == 1

ChildOutcomes ==
  {[kind |-> "exit", code |-> c] : c \in 0..MaxExitCode}
    \cup {[kind |-> "signal", code |-> 0], [kind |-> "error", code |-> 0]}

\* exit_code: null
NoExitCode == -1

\* what a call of executeWithAuthority gives its caller
NoKernelOutcome ==
  [kind |-> "none", error_type |-> "none", executed |-> FALSE, exit_code |-> NoExitCode]

\* throw new ExecutionDeniedError(error_type, ...)
kernelDenial(errorType) ==
  [kind |-> "denied", error_type |-> errorType, executed |-> FALSE,
   exit_code |-> NoExitCode]

\* child.on('close', (code) => resolve(code ?? 0)); child.on('error', reject):
\* the result that is returned, or the error of the child process that is
\* raised as it is
kernelOutcome(outcome) ==
  IF outcome.kind = "error"
  THEN [kind |-> "error", error_type |-> "none", executed |-> FALSE,
        exit_code |-> NoExitCode]
  ELSE [kind |-> "result", error_type |-> "none", executed |-> TRUE,
        exit_code |-> IF outcome.kind = "exit" THEN outcome.code ELSE 0]

\* the child closes (or fails to start): the suspended call returns (or rejects)
ChildExit(call) ==
  /\ kpc = "idle"
  /\ call \in running
  /\ running' = running \ {call}
  /\ UNCHANGED <<now, policyFile, host, usedTokenIds, nextId, pipe, kpc, cur, kerr, spawned,
                 presented, evalVars>>

\* ---------------------------------------------------------------- environment
Tick ==
  /\ kpc = "idle"
  /\ now + TickMs <= MaxTicks * TickMs
  /\ now' = now + TickMs
  /\ UNCHANGED <<policyFile, host, usedTokenIds, nextId, pipe, kpc, cur, kerr, running, spawned,
                 lastAudit, presented, evalVars, adapterVars>>

EditPolicy(f) ==
  /\ kpc = "idle"
  /\ f # policyFile
  /\ policyFile' = f
  /\ UNCHANGED <<now, host, usedTokenIds, nextId, pipe, kpc, cur, kerr, running, spawned,
                 lastAudit, presented, evalVars, adapterVars>>

ChangeHost(h) ==
  /\ kpc = "idle"
  /\ h # host
  /\ host' = h
  /\ UNCHANGED <<now, policyFile, usedTokenIds, nextId, pipe, kpc, cur, kerr, running, spawned,
                 lastAudit, presented, evalVars, adapterVars>>

\* ------------------------------------------------ what a caller can present
\* the policy contents the kernel runs see
KernelPolicies == {1, 2}

OtherArgs(args) == CHOOSE a \in ArgVectors : a # args
OtherPolicy(f) == CHOOSE g \in KernelPolicies : g # f
OtherHost(h) == CHOOSE g \in Hosts : g # h

Mutations ==
  {"none", "expires_at", "expires_at_later", "issued_at", "decision",
   "issuer_signature", "proposal_hash", "policy_hash", "environment_fingerprint",
   "token_id"}

\* the token with one field overwritten; resign: signed again by the
\* presenter's own key, whose public half replaces public_key_hex
Tamper(token, proposal, field, resign) ==
  LET p == Payload(token)
      q == CASE field = "none" -> p
             [] field = "expires_at" -> [p EXCEPT !.expires_at = p.issued_at - MINUTE_MS]
             [] field = "expires_at_later" -> [p EXCEPT !.expires_at = @ + TOKEN_TTL_MS]
             [] field = "issued_at" -> [p EXCEPT !.issued_at = @ - MINUTE_MS]
             [] field = "decision" ->
                  [p EXCEPT !.decision = IF @ = "ALLOW" THEN "HOLD" ELSE "ALLOW"]
             [] field = "issuer_signature" -> p
             [] field = "proposal_hash" ->
                  [p EXCEPT !.proposal_hash =
                     canonicalHash([proposal EXCEPT !.args = OtherArgs(@)])]
             [] field = "policy_hash" ->
                  [p EXCEPT !.policy_hash = hashPolicyFile(OtherPolicy(@[2]))]
             [] field = "environment_fingerprint" ->
                  [p EXCEPT !.environment_fingerprint = <<OtherHost(@[1]), @[2]>>]
             [] field = "token_id" -> [p EXCEPT !.token_id = ForgedId]
  IN  IF resign THEN WithSignature(q, cryptoSign(q, AttackerKey), AttackerKey)
      ELSE IF field = "issuer_signature"
           THEN WithSignature(q, cryptoSign(q, GarbageKey), token.public_key_hex)
      ELSE WithSignature(q, token.issuer_signature, token.public_key_hex)

PresentedTokens ==
  {Tamper(pipe.token, pipe.proposal, m, r) : m \in Mutations, r \in BOOLEAN}

PresentedProposals ==
  {pipe.proposal, [pipe.proposal EXCEPT !.args = OtherArgs(@)]}

\* ------------------------------------------------------------ specification
\* values of the variables no call has written yet
NoRequest == [kind |-> "none"]
NoEvaluation == [done |-> FALSE]
NoStore == {}
NoAdapterResult ==
  [stage |-> "idle", verdict |-> "none", reason_code |-> "none", token_id |-> ForgedId,
   executed |-> FALSE, command |-> "", args |-> <<>>, mode |-> STRICT,
   proposal_hash |-> canonicalHash(NoProposal), scope |-> "safe", ruleScope |-> "none",
   exit_code |-> NoExitCode, stored |-> FALSE, scopeConsulted |-> FALSE,
   storeConsulted |-> FALSE, pipelineRan |-> FALSE, kernelRan |-> FALSE]

NoRun ==
  [stage |-> "idle", command |-> "", args |-> <<>>, fail_on_hold |-> "true",
   ran |-> FALSE, child |-> [kind |-> "none", code |-> 0], kernel |-> NoKernelOutcome,
   exit_code |-> NoExitCode]

\* the state at process start, but for the policy file, the call under study
\* and the registry's file
InitProcess ==
  /\ now = 0
  /\ host = 1
  /\ usedTokenIds = {}
  /\ nextId = 0
  /\ pipe = NoResult
  /\ kpc = "idle"
  /\ cur = NoCall
  /\ kerr = "OK"
  /\ running = {}
  /\ spawned = [i \in TokenIds |-> 0]
  /\ lastAudit = NoAudit
  /\ presented = {}
  /\ store = NoStore
  /\ ares = NoAdapterResult
  /\ main = NoRun
  /\ trail = <<>>
  /\ suspended = {}

Init ==
  /\ InitProcess
  /\ usedTokensFile = <<>>
  /\ policyFile = 1
  /\ erq = NoRequest
  /\ eres = NoEvaluation

\* the requests the callers of this run make
IssueRequests ==
  {<<"echo", <<"a">>, STRICT, FALSE>>,
   <<"sudo", <<"b">>, PERMISSIVE, FALSE>>,
   <<"sudo", <<"b">>, STRICT, FALSE>>}

Issue ==
  /\ \E rq \in IssueRequests : RunPipeline(rq[1], rq[2], rq[3], rq[4], "none")
  /\ UNCHANGED adapterVars

Present ==
  /\ pipe.hasToken
  /\ \E token \in PresentedTokens, proposal \in PresentedProposals,
        command \in Commands, args \in ArgVectors :
       KernelCall(command, args, proposal, token)
  /\ UNCHANGED adapterVars

Throw == KernelThrow /\ UNCHANGED <<lastAudit, adapterVars>>

\* the registry's file is not written in the runs that do not read it
MarkUsed == KernelMarkUsed /\ UNCHANGED adapterVars

Spawn == KernelSpawn /\ UNCHANGED adapterVars

Exit == (\E call \in running : ChildExit(call)) /\ UNCHANGED <<lastAudit, adapterVars>>

Edit == \E f \in KernelPolicies : EditPolicy(f)

Next ==
  \/ Issue
  \/ Present
  \/ Throw
  \/ MarkUsed
  \/ Spawn
  \/ Exit
  \/ Tick
  \/ Edit

Spec == Init /\ [][Next]_vars

\* The pipeline alone, over every request, mode and flag, every policy file
\* (the missing one included) and every host.
IssueAny ==
  /\ \E command \in Commands, args \in ArgVectors, mode \in GateModes,
        allowWithAudit \in BOOLEAN, throwAt \in ThrowPoints :
       RunPipeline(command, args, mode, allowWithAudit, throwAt)
  /\ UNCHANGED adapterVars

\* the policy files the pipeline runs see: none, rules with default DENY, default
\* ALLOW, a file that does not parse, a rule entry that is no mapping
PipelinePolicies == {0, 1, 3, 4, 9}

EditAny == \E f \in PipelinePolicies : EditPolicy(f)

Move == \E h \in Hosts : ChangeHost(h)

NextPipeline ==
  \/ IssueAny
  \/ Tick
  \/ EditAny
  \/ Move

SpecPipeline == Init /\ [][NextPipeline]_vars

\* The evaluator alone: evaluate on every request against every policy file,
\* matchesRule on every request against every rule.
EvalArgVectors ==
  {<<>>, <<"a">>, <<"b">>, <<"*">>, <<"a", "b">>, <<"b", "a">>, <<"a", "b", "c">>}

RuleArgVectors ==
  {<<>>, <<"*">>, <<"a">>, <<"a", "*">>, <<"*", "b">>, <<"*", "*">>, <<"a", "b">>}

EvalRules ==
  {Rule(c, h, a, "safe") : c \in Commands, h \in {TRUE}, a \in RuleArgVectors}
    \cup {Rule(c, FALSE, <<>>, "safe") : c \in Commands}

InitEvaluate ==
  /\ InitProcess
  /\ usedTokensFile = <<>>
  /\ policyFile \in PolicyFiles
  /\ eres = NoEvaluation
  /\ \E c \in Commands, a \in EvalArgVectors :
       \/ erq = [kind |-> "evaluate", command |-> c, args |-> a]
       \/ \E r \in EvalRules :
            /\ policyFile = 1
            /\ erq = [kind |-> "matchesRule", command |-> c, args |-> a, rule |-> r]

Evaluate ==
  /\ erq.kind = "evaluate" /\ ~eres.done
  /\ eres' = [done |-> TRUE, result |-> evaluate(erq.command, erq.args, policyFile)]
  /\ UNCHANGED <<coreVars, erq, adapterVars>>

Match ==
  /\ erq.kind = "matchesRule" /\ ~eres.done
  /\ eres' = [done |-> TRUE, result |-> matchesRule(erq.command, erq.args, erq.rule)]
  /\ UNCHANGED <<coreVars, erq, adapterVars>>

NextEvaluate == Evaluate \/ Match

SpecEvaluate == InitEvaluate /\ [][NextEvaluate]_vars

\* One run of the entry point after the other: the pipeline, then, on ALLOW,
\* the kernel with the command and args of the request and the proposal and
\* token of the result; the policy file and the host may change in between.
PresentOwn ==
  /\ pipe.decision = "ALLOW"
  /\ pipe.hasToken /\ pipe.hasProposal
  /\ KernelCall(pipe.call.command, pipe.call.args, pipe.proposal, pipe.token)
  /\ UNCHANGED adapterVars

NextRun ==
  \/ IssueAny
  \/ PresentOwn
  \/ Throw
  \/ MarkUsed
  \/ Spawn
  \/ Exit
  \/ Tick
  \/ EditAny
  \/ Move

SpecRun == Init /\ [][NextRun]_vars

\* ------------------------------------------------------------ proposal validation
\* A value as the validator receives it: its type and, for a string, its text,
\* for an array, its items. A text is the sequence of its pieces: a word (a run
\* of characters that are neither whitespace nor shell metacharacters) or one
\* whitespace character or one shell metacharacter.
Undefined == [type |-> "undefined", text |-> <<>>, items |-> <<>>]
NotAString == [type |-> "number", text |-> <<>>, items |-> <<>>]
Str(text) == [type |-> "string", text |-> text, items |-> <<>>]
Arr(items) == [type |-> "array", text |-> <<>>, items |-> items]

\* what \s matches, among the characters of the model
Whitespace == {" ", "\t", "\n", "\r"}

\* the character class of the regular expression; the piece "backquote" is the
\* one character U+0060
SHELL_METACHARACTERS ==
  {"|", "&", ";", "<", ">", "backquote", "$", "\"", "'", "(", ")", "\n", "\r"}

\* String.prototype.trim: the text without its leading and trailing whitespace
trim(text) ==
  LET kept == {i \in 1..Len(text) : text[i] \notin Whitespace}
  IN  IF kept = {} THEN <<>>
      ELSE SubSeq(text, CHOOSE i \in kept : \A j \in kept : i <= j,
                        CHOOSE i \in kept : \A j \in kept : j <= i)

\* /\s/.test
containsWhitespace(text) == \E i \in 1..Len(text) : text[i] \in Whitespace

\* (variant) a test that lets the two substitution characters through
containsShellMetacharacter_NoSubstitution(text) ==
  \E i \in 1..Len(text) : text[i] \in SHELL_METACHARACTERS \ {"backquote", "$"}

\* SHELL_METACHARACTERS.test
containsShellMetacharacter(text) ==
  \E i \in 1..Len(text) : text[i] \in SHELL_METACHARACTERS

\* /[\n\r]/.test
containsNewline(text) == \E i \in 1..Len(text) : text[i] \in {"\n", "\r"}

\* the string that the pieces of a text spell
RECURSIVE join(_)
join(text) == IF text = <<>> THEN "" ELSE Head(text) \o join(Tail(text))

\* the strings of an array of strings
argv(items) == [i \in 1..Len(items) |-> join(items[i].text)]

RequiredFields == <<"session_id", "turn_id", "agent_id", "command">>

ValidationFailure(reasonCode) ==
  [valid |-> FALSE, reason_code |-> reasonCode, command |-> <<>>, args |-> <<>>]

ValidationResult(command, args) ==
  [valid |-> TRUE, reason_code |-> "none", command |-> command, args |-> args]

\* (variant) a validator that accepts what it is given
validateOpenClawProposal_Unchecked(input) ==
  ValidationResult(trim(input.command.text), input.args.items)

\* validateOpenClawProposal: the first check that fails decides
validateOpenClawProposal(input) ==
  LET missing == {i \in 1..Len(RequiredFields) :
                    \/ input[RequiredFields[i]].type # "string"
                    \/ trim(input[RequiredFields[i]].text) = <<>>}
      command == trim(input.command.text)
      items == input.args.items
      bad == {i \in 1..Len(items) :
                items[i].type # "string" \/ containsNewline(items[i].text)}
      firstBad == CHOOSE i \in bad : \A j \in bad : i <= j
  IN  IF ~input.isObject THEN ValidationFailure("VALIDATION_ERROR")
      ELSE IF input.source # Str(<<"openclaw">>) THEN ValidationFailure("VALIDATION_ERROR")
      ELSE IF missing # {} THEN ValidationFailure("VALIDATION_ERROR")
      ELSE IF containsWhitespace(command) THEN ValidationFailure("SHELL_STRING_REJECTED")
      ELSE IF containsShellMetacharacter(command)
      THEN ValidationFailure("SHELL_STRING_REJECTED")
      ELSE IF input.args.type # "array" THEN ValidationFailure("VALIDATION_ERROR")
      ELSE IF bad # {}
      THEN IF items[firstBad].type # "string"
           THEN ValidationFailure("VALIDATION_ERROR")
           ELSE ValidationFailure("SHELL_STRING_REJECTED")
      ELSE IF input.cwd.type \notin {"undefined", "string"}
      THEN ValidationFailure("VALIDATION_ERROR")
      ELSE IF input.policy_ref.type \notin {"undefined", "string"}
      THEN ValidationFailure("VALIDATION_ERROR")
      ELSE IF /\ input.requested_mode.type # "undefined"
              /\ ~(/\ input.requested_mode.type = "string"
                   /\ join(input.requested_mode.text) \in GateModes)
      THEN ValidationFailure("VALIDATION_ERROR")
      ELSE ValidationResult(command, items)

\* the proposal of a well-behaved agent for (command, args)
openClawProposal(command, args) ==
  [isObject |-> TRUE, source |-> Str(<<"openclaw">>), session_id |-> Str(<<"s">>),
   turn_id |-> Str(<<"t">>), agent_id |-> Str(<<"g">>), command |-> Str(<<command>>),
   args |-> Arr([i \in 1..Len(args) |-> Str(<<args[i]>>)]), cwd |-> Undefined,
   policy_ref |-> Undefined, requested_mode |-> Undefined]

\* ------------------------------------------------------------ entry point
\* rawCommand.trim().split(/\s+/): the words of a text whose words stand apart
splitWhitespace(text) == SelectSeq(text, LAMBDA c : c \notin Whitespace)

\* String.prototype.toLowerCase, on the values the input takes here
toLowerCase(str) == IF str \in {"FALSE", "False"} THEN "false" ELSE str

\* failOnHoldStr.toLowerCase() !== 'false'
parseFailOnHold(str) == toLowerCase(str) # "false"

\* (variant) a HOLD that always fails the run
holdExitCode_AlwaysFail(failOnHold) == 1

\* process.exit on HOLD
holdExitCode(failOnHold) == IF failOnHold THEN 1 ELSE 0

\* INPUT_COMMAND, INPUT_FAIL_ON_HOLD (unset reads as 'true')
RawCommands ==
  {<<"echo", " ", "a">>, <<" ", "sudo", " ", " ", "b", " ">>, <<" ">>}

FailOnHoldInputs == {"true", "false", "FALSE", "no"}

\* run(), up to the first suspension after the pipeline
MainStart ==
  /\ kpc = "idle"
  /\ main.stage \in {"idle", "exited"}
  /\ \E raw \in RawCommands, mode \in GateModes, str \in FailOnHoldInputs :
       IF trim(raw) = <<>>
       THEN /\ main' = [NoRun EXCEPT !.stage = "exited", !.fail_on_hold = str,
                                     !.exit_code = 1]
            /\ UNCHANGED <<coreVars, evalVars, store, ares, usedTokensFile, trail, suspended>>
       ELSE \E parts \in {splitWhitespace(trim(raw))} :
              /\ RunPipeline(Head(parts), Tail(parts), mode, FALSE, "none")
              /\ \E run \in {[NoRun EXCEPT !.command = Head(parts), !.args = Tail(parts),
                                           !.fail_on_hold = str, !.ran = TRUE]} :
                   main' =
                     IF pipe'.decision = "ALLOW"
                     THEN IF pipe'.hasToken /\ pipe'.hasProposal
                          THEN [run EXCEPT !.stage = "allowed"]
                          ELSE [run EXCEPT !.stage = "exited", !.exit_code = 1]
                     ELSE IF pipe'.decision = "STOP"
                     THEN [run EXCEPT !.stage = "exited", !.exit_code = 1]
                     ELSE [run EXCEPT !.stage = "exited",
                                      !.exit_code = holdExitCode(parseFailOnHold(str))]
              /\ UNCHANGED <<store, ares, usedTokensFile, trail, suspended>>

\* await executeWithAuthority(command, args, proposal, token)
MainKernel ==
  /\ main.stage = "allowed"
  /\ KernelCall(main.command, main.args, pipe.proposal, pipe.token)
  /\ main' = [main EXCEPT !.stage = "kernel"]
  /\ UNCHANGED <<store, ares, usedTokensFile, trail, suspended>>

\* catch (err): the kernel call raised a denial
MainCatch ==
  /\ main.stage = "kernel"
  /\ KernelThrow
  /\ main' = [main EXCEPT !.stage = "exited", !.kernel = kernelDenial(kerr),
                          !.exit_code = 1]
  /\ UNCHANGED <<lastAudit, store, ares, usedTokensFile, trail, suspended>>

\* the child is done: process.exit(kernelResult.exit_code), or catch (err)
MainReturn ==
  /\ main.stage = "kernel"
  /\ ChildExit(pipe.token.token_id)
  /\ \E outcome \in ChildOutcomes :
     \E kernelResult \in {kernelOutcome(outcome)} :
       main' = [main EXCEPT !.stage = "exited", !.child = outcome,
                            !.kernel = kernelResult,
                            !.exit_code = IF kernelResult.kind = "result"
                                          THEN kernelResult.exit_code ELSE 1]
  /\ UNCHANGED <<lastAudit, store, ares, usedTokensFile, trail, suspended>>

\* One run of the entry point after the other, while time passes and the
\* policy file is edited.
MainPolicies == {1, 2}

EditMain == \E f \in MainPolicies : EditPolicy(f)

NextMain ==
  \/ MainStart
  \/ MainKernel
  \/ MainCatch
  \/ MarkUsed
  \/ Spawn
  \/ MainReturn
  \/ Tick
  \/ EditMain

SpecMain == Init /\ [][NextMain]_vars

\* ------------------------------------------------------------ OpenClaw adapter
scopeRequiresPreApprovedToken(scope) == scope \in {"net", "fs", "admin"}

\* (variant) no scope counted as admin
isAdminScope_Never(scope) == FALSE

isAdminScope(scope) == scope = "admin"

\* (variant) a store that keeps the record it already has under the hash
storeToken_KeepsFirst(st, proposalHash, token) ==
  IF \E e \in st : e.key = proposalHash THEN st
  ELSE st \cup {[key |-> proposalHash, token |-> token]}

\* MemoryTokenStore: at most one record per proposal hash
storeToken(st, proposalHash, token) ==
  {e \in st : e.key # proposalHash} \cup {[key |-> proposalHash, token |-> token]}

deleteToken(st, proposalHash) == {e \in st : e.key # proposalHash}

\* (variant) a retrieve without the expiry check
retrieveToken_NoTtl(st, proposalHash, t) ==
  IF \E e \in st : e.key = proposalHash
  THEN [found |-> TRUE, token |-> (CHOOSE e \in st : e.key = proposalHash).token]
  ELSE [found |-> FALSE, token |-> NoToken]

\* retrieve: the token under the hash unless absent or expired
retrieveToken(st, proposalHash, t) ==
  IF \E e \in st : e.key = proposalHash /\ t <= e.token.expires_at
  THEN [found |-> TRUE, token |-> (CHOOSE e \in st : e.key = proposalHash).token]
  ELSE [found |-> FALSE, token |-> NoToken]

\* the store after retrieve: an expired record under the hash is deleted
afterRetrieve(st, proposalHash, t) ==
  {e \in st : ~(e.key = proposalHash /\ t > e.token.expires_at)}

\* has: retrieve gave a token
hasStoredToken(st, proposalHash, t) == retrieveToken(st, proposalHash, t).found

\* the entry that buildAuditEntry makes and appendAuditRecord receives
adapterAudit(reasonCode, tokenId, command, args, mode, t) ==
  [event |-> reasonCode, token_id |-> tokenId, command |-> command, args |-> args,
   gate_mode |-> mode, timestamp |-> t]

\* the scope of the rule that the evaluator matches for (command, args)
matchedRuleScope(command, args, f) ==
  LET r == evaluate(command, args, f)
  IN  IF r.threw \/ r.matched = 0 THEN "none"
      ELSE IF r.scope = "none" THEN "safe" ELSE r.scope

\* The human-in-the-loop issuer: has a token issued for (command, args) and
\* stores it under its proposal hash.
Approve(command, args, mode) ==
  /\ ares.stage \in {"idle", "done"}
  /\ RunPipeline(command, args, mode, FALSE, "none")
  /\ store' = IF pipe'.hasToken /\ pipe'.decision = "ALLOW"
              THEN storeToken(store, pipe'.proposal_hash, pipe'.token)
              ELSE store
  /\ UNCHANGED <<ares, main, usedTokensFile, trail, suspended>>

\* executeWithOpenClawAuthority, steps 1-6: up to the first suspension.
\* the inputs of a call and what steps 2-3 compute from them
adapterCall(command, args, mode, f, t) ==
  [NoAdapterResult EXCEPT
     !.command = command, !.args = args, !.mode = mode,
     !.proposal_hash = canonicalHash(buildCanonicalProposal(command, args, f, t)),
     !.scope = IF getRuleScope(command, f) = "null" THEN "safe"
               ELSE getRuleScope(command, f),
     !.ruleScope = matchedRuleScope(command, args, f), !.scopeConsulted = TRUE]

\* steps 2-6, on the command and args of a proposal that passed step 1
AdapterEnter(command, args, mode, allowWithAudit) ==
  /\ kpc = "idle"
  /\ UNCHANGED <<main, usedTokensFile, trail, suspended>>
  /\ ares.stage \in {"idle", "done"}
  /\ \E proposal \in {buildCanonicalProposal(command, args, policyFile, now)},
        call \in {adapterCall(command, args, mode, policyFile, now)} :
     \E storedToken \in {retrieveToken(store, call.proposal_hash, now)} :
     LET proposal_hash == call.proposal_hash
         scope == call.scope
         needsPreApprovedToken == scopeRequiresPreApprovedToken(scope)
     IN  IF isAdminScope(scope) /\ mode = STRICT
         THEN /\ ares' = [call EXCEPT !.stage = "done", !.verdict = "STOP",
                                      !.reason_code = "SCOPE_ELEVATION_STOP"]
              /\ lastAudit' = adapterAudit("SCOPE_ELEVATION_STOP", ForgedId,
                                           command, args, mode, now)
              /\ UNCHANGED <<now, policyFile, host, usedTokenIds, nextId, pipe, kpc, cur,
                             kerr, running, spawned, presented, evalVars, store>>
         ELSE IF storedToken.found
         THEN /\ KernelCall(command, args, proposal, storedToken.token)
              /\ ares' = [call EXCEPT !.stage = "kernel", !.stored = TRUE,
                                      !.storeConsulted = TRUE, !.kernelRan = TRUE,
                                      !.token_id = storedToken.token.token_id]
              /\ UNCHANGED store
         ELSE IF needsPreApprovedToken
         THEN /\ ares' = [call EXCEPT !.stage = "done", !.verdict = "HOLD",
                                      !.reason_code = "SCOPE_ELEVATION_HOLD",
                                      !.storeConsulted = TRUE]
              /\ store' = afterRetrieve(store, proposal_hash, now)
              /\ lastAudit' = adapterAudit("SCOPE_ELEVATION_HOLD", ForgedId,
                                           command, args, mode, now)
              /\ UNCHANGED <<now, policyFile, host, usedTokenIds, nextId, pipe, kpc, cur,
                             kerr, running, spawned, presented, evalVars>>
         ELSE /\ RunPipeline(command, args, mode, allowWithAudit, "none")
              /\ store' = afterRetrieve(store, proposal_hash, now)
              /\ ares' =
                   IF pipe'.decision = "STOP"
                   THEN [call EXCEPT !.stage = "done", !.verdict = "STOP",
                                     !.reason_code = "POLICY_MISS_STOP",
                                     !.storeConsulted = TRUE, !.pipelineRan = TRUE]
                   ELSE IF pipe'.decision = "HOLD"
                   THEN [call EXCEPT !.stage = "done", !.verdict = "HOLD",
                                     !.reason_code = "POLICY_MISS_HOLD",
                                     !.token_id = pipe'.token.token_id,
                                     !.storeConsulted = TRUE, !.pipelineRan = TRUE]
                   ELSE [call EXCEPT !.stage = "issued",
                                     !.token_id = pipe'.token.token_id,
                                     !.storeConsulted = TRUE, !.pipelineRan = TRUE]

\* the result of a call that ends at step 1
earlyStop(reasonCode) ==
  [NoAdapterResult EXCEPT !.stage = "done", !.verdict = "STOP", !.reason_code = reasonCode]

\* executeWithOpenClawAuthority, up to the first suspension: step 1 validates
\* the proposal, and only a valid one goes on to steps 2-6
executeWithOpenClawAuthority(input, mode, allowWithAudit) ==
  \E validation \in {validateOpenClawProposal(input)} :
    IF ~validation.valid
    THEN /\ kpc = "idle"
         /\ ares.stage \in {"idle", "done"}
         /\ ares' = earlyStop(validation.reason_code)
         /\ UNCHANGED <<coreVars, evalVars, store, main, usedTokensFile, trail, suspended>>
    ELSE AdapterEnter(join(validation.command), argv(validation.args), mode,
                      allowWithAudit)

\* step 7: the kernel is called with the proposal and the token just issued
AdapterKernel ==
  /\ ares.stage = "issued"
  /\ KernelCall(ares.command, ares.args, pipe.proposal, pipe.token)
  /\ ares' = [ares EXCEPT !.stage = "kernel", !.kernelRan = TRUE]
  /\ UNCHANGED <<store, main, usedTokensFile, trail, suspended>>

\* the catch blocks: the kernel call raised
AdapterCatch ==
  /\ ares.stage = "kernel"
  /\ KernelThrow
  /\ ares' = [ares EXCEPT !.stage = "done", !.verdict = "STOP", !.reason_code = kerr]
  /\ store' = IF ares.stored THEN deleteToken(store, ares.proposal_hash) ELSE store
  /\ lastAudit' = adapterAudit(kerr, ares.token_id, ares.command, ares.args, ares.mode, now)
  /\ UNCHANGED <<main, usedTokensFile, trail, suspended>>

\* the reason code of a result whose kernel call returned
allowReasonCode(stored, token, mode) ==
  IF stored THEN "PRE_APPROVED_TOKEN_ALLOW"
  ELSE IF token.audited_permit /\ token.gate_mode = mode THEN "AUDITED_PERMIT"
  ELSE "POLICY_MATCH_ALLOW"

\* the child is done: the kernel call returned, or raised the child's error
\* and a catch block took it
AdapterReturn ==
  /\ ares.stage = "kernel"
  /\ ChildExit(ares.token_id)
  /\ \E outcome \in ChildOutcomes :
     \E kernelResult \in {kernelOutcome(outcome)} :
       IF kernelResult.kind = "result"
       THEN /\ ares' = [ares EXCEPT !.stage = "done", !.verdict = "ALLOW",
                                    !.executed = TRUE,
                                    !.exit_code = kernelResult.exit_code,
                                    !.reason_code =
                                      allowReasonCode(ares.stored, pipe.token, ares.mode)]
            /\ lastAudit' = adapterAudit(allowReasonCode(ares.stored, pipe.token, ares.mode),
                                         ares.token_id, ares.command, ares.args, ares.mode,
                                         now)
       ELSE /\ ares' = [ares EXCEPT !.stage = "done", !.verdict = "STOP",
                                    !.reason_code = "PIPELINE_ERROR"]
            /\ lastAudit' = adapterAudit("PIPELINE_ERROR", ares.token_id, ares.command,
                                         ares.args, ares.mode, now)
  /\ store' = IF ares.stored THEN deleteToken(store, ares.proposal_hash) ELSE store
  /\ UNCHANGED <<main, usedTokensFile, trail, suspended>>

\* Requests through the adapter, with an issuer that stores approved tokens.
\* the policy files the adapter runs see: a rule without scope and default DENY
\* (2), first rules of scope fs and admin (10), rules of different scopes for
\* one command (11)
AdapterPolicies == {2, 10, 11}

AdapterRequests ==
  {<<"echo", <<"b">>, STRICT, FALSE>>,
   <<"echo", <<"b">>, PERMISSIVE, TRUE>>,
   <<"sudo", <<"a">>, STRICT, FALSE>>,
   <<"sudo", <<"a">>, PERMISSIVE, FALSE>>}

Request ==
  \E rq \in AdapterRequests :
    executeWithOpenClawAuthority(openClawProposal(rq[1], rq[2]), rq[3], rq[4])

ApprovedRequests == {<<"echo", <<"b">>>>, <<"sudo", <<"a">>>>}

Approval == \E rq \in ApprovedRequests : Approve(rq[1], rq[2], STRICT)

EditAdapter == \E f \in AdapterPolicies : EditPolicy(f)

NextAdapter ==
  \/ Request
  \/ Approval
  \/ AdapterKernel
  \/ AdapterCatch
  \/ MarkUsed
  \/ Spawn
  \/ AdapterReturn
  \/ Tick
  \/ EditAdapter

SpecAdapter == Init /\ [][NextAdapter]_vars

\* Requests of every kind through the adapter under the first policy file:
\* well-formed ones and proposals that step 1 turns away (a shell string as
\* command, a line break in an argument, another source tag, a shell string
\* as args), with the issuer storing approved tokens.
RejectedProposals ==
  {[openClawProposal("echo", <<"b">>) EXCEPT !.command = Str(<<"echo", " ", "b">>)],
   [openClawProposal("echo", <<"b">>) EXCEPT !.args = Arr(<<Str(<<"b", "\n", "a">>)>>)],
   [openClawProposal("echo", <<"b">>) EXCEPT !.source = Str(<<"other">>)],
   [openClawProposal("sudo", <<"a">>) EXCEPT !.args = Str(<<"a", " ", "b">>)]}

RejectedInputs == {<<p, mode, FALSE>> : p \in RejectedProposals, mode \in GateModes}

AdapterInputs ==
  {<<openClawProposal(rq[1], rq[2]), rq[3], rq[4]>> : rq \in AdapterRequests}
    \cup RejectedInputs

RequestAny == \E rq \in AdapterInputs : executeWithOpenClawAuthority(rq[1], rq[2], rq[3])

NextGate ==
  \/ RequestAny
  \/ Approval
  \/ AdapterKernel
  \/ AdapterCatch
  \/ MarkUsed
  \/ Spawn
  \/ AdapterReturn
  \/ Tick

SpecGate == Init /\ [][NextGate]_vars

\* One request made again and again while time passes, the policy file and the
\* host staying as they are.
Rerun == executeWithOpenClawAuthority(openClawProposal("echo", <<"a">>), STRICT, FALSE)

NextRerun ==
  \/ Rerun
  \/ AdapterKernel
  \/ AdapterCatch
  \/ MarkUsed
  \/ Spawn
  \/ AdapterReturn
  \/ Tick

SpecRerun == Init /\ [][NextRerun]_vars

\* The registry with its file: tokens issued, presented as issued, time after
\* time, each use persisted or not, the file read at any time. The file may
\* start with what an earlier process left: the record of a token it used, or
\* a record it did not finish writing.
EarlierFiles == {<<>>, <<Record(ForgedId, NoExpiry)>>, <<MalformedLine>>}

InitWithFile ==
  /\ InitProcess
  /\ usedTokensFile \in EarlierFiles
  /\ policyFile = 1
  /\ erq = NoRequest
  /\ eres = NoEvaluation

RegistryLoad ==
  /\ kpc = "idle"
  /\ \E fileState \in FileStates :
       /\ fileState = "missing" => usedTokensFile = <<>>
       /\ usedTokenIds' =
            initRegistry(usedTokenIds, readRecords(fileState, usedTokensFile, now))
  /\ UNCHANGED <<now, policyFile, host, nextId, pipe, kpc, cur, kerr, running, spawned,
                 lastAudit, presented, evalVars, adapterVars>>

\* markTokenUsed, with its try block
MarkUsedPersist ==
  /\ KernelMarkUsed
  /\ \E outcome \in PersistOutcomes :
       usedTokensFile' = persistTokenRecord(usedTokensFile, cur.token.token_id, outcome)
  /\ UNCHANGED <<store, ares, main, trail, suspended>>

NextRegistry ==
  \/ Issue
  \/ PresentOwn
  \/ Throw
  \/ MarkUsedPersist
  \/ Spawn
  \/ Exit
  \/ RegistryLoad
  \/ Tick

SpecRegistry == InitWithFile /\ [][NextRegistry]_vars

\* The process ends and another starts on the same host: the in-memory set is
\* new and initRegistry fills it from the file; what callers and the token
\* store hold, the clock and the files stay.
\* restarts are followed until a token has spawned again
MaxRespawns == 1

Restart ==
  /\ kpc = "idle"
  /\ running = {}
  /\ \A id \in TokenIds : spawned[id] <= MaxRespawns
  /\ \E fileState \in FileStates :
       /\ fileState = "missing" => usedTokensFile = <<>>
       /\ usedTokenIds' = initRegistry({}, readRecords(fileState, usedTokensFile, now))
  /\ UNCHANGED <<now, policyFile, host, nextId, pipe, kpc, cur, kerr, running, spawned,
                 lastAudit, presented, evalVars, adapterVars>>

NextRestart ==
  \/ Issue
  \/ PresentOwn
  \/ Throw
  \/ MarkUsedPersist
  \/ Spawn
  \/ Exit
  \/ Restart
  \/ Tick

SpecRestart == InitWithFile /\ [][NextRestart]_vars

\* Stored tokens of every kind: the issuer stores the token it holds, as
\* issued or altered, under the hash of its proposal or of another proposal.
StoredMutations ==
  {"none", "expires_at", "decision", "issuer_signature", "policy_hash",
   "environment_fingerprint"}

StoreHeld ==
  /\ kpc = "idle"
  /\ ares.stage \in {"idle", "done"}
  /\ pipe.hasToken
  /\ \E m \in StoredMutations,
        key \in {pipe.proposal_hash,
                 canonicalHash([pipe.proposal EXCEPT !.args = OtherArgs(@)])} :
       /\ Cardinality(storeToken(store, key, pipe.token)) <= MaxStored
       /\ store' = storeToken(store, key, Tamper(pipe.token, pipe.proposal, m, FALSE))
  /\ UNCHANGED <<coreVars, evalVars, ares, main, usedTokensFile, trail, suspended>>

StoredRequests ==
  {<<"echo", <<"a">>, STRICT>>, <<"echo", <<"b">>, STRICT>>, <<"sudo", <<"b">>, PERMISSIVE>>}

RequestStored ==
  \E rq \in StoredRequests :
    executeWithOpenClawAuthority(openClawProposal(rq[1], rq[2]), rq[3], FALSE)

NextStored ==
  \/ Issue
  \/ StoreHeld
  \/ RequestStored
  \/ AdapterKernel
  \/ AdapterCatch
  \/ MarkUsed
  \/ Spawn
  \/ AdapterReturn

SpecStored == Init /\ [][NextStored]_vars

\* The token store alone: store, retrieve, has and delete in any order, on two
\* keys and two tokens of different expiry, while time passes.
StoreKeys ==
  {canonicalHash(buildCanonicalProposal("echo", a, 1, 0)) : a \in ArgVectors}

StoreTokens ==
  {issueToken(i, i, "ALLOW", canonicalHash(buildCanonicalProposal("echo", <<"a">>, 1, 0)),
              hashPolicyFile(1), buildEnvironmentFingerprint(1, 1), (i - 1) * TickMs,
              STRICT, FALSE, TRUE) : i \in 1..MaxIssued}

StoreCall ==
  \E h \in StoreKeys, token \in StoreTokens :
    /\ store' = storeToken(store, h, token)
    /\ eres' = [done |-> TRUE, op |-> "store", key |-> h, token |-> token,
                found |-> FALSE, before |-> store, at |-> now]
    /\ UNCHANGED <<coreVars, erq, ares, main, usedTokensFile, trail, suspended>>

RetrieveCall ==
  \E h \in StoreKeys :
    /\ store' = afterRetrieve(store, h, now)
    /\ eres' = [done |-> TRUE, op |-> "retrieve", key |-> h,
                token |-> retrieveToken(store, h, now).token,
                found |-> retrieveToken(store, h, now).found, before |-> store, at |-> now]
    /\ UNCHANGED <<coreVars, erq, ares, main, usedTokensFile, trail, suspended>>

HasCall ==
  \E h \in StoreKeys :
    /\ store' = afterRetrieve(store, h, now)
    /\ eres' = [done |-> TRUE, op |-> "has", key |-> h, token |-> NoToken,
                found |-> hasStoredToken(store, h, now), before |-> store, at |-> now]
    /\ UNCHANGED <<coreVars, erq, ares, main, usedTokensFile, trail, suspended>>

DeleteCall ==
  \E h \in StoreKeys :
    /\ store' = deleteToken(store, h)
    /\ eres' = [done |-> TRUE, op |-> "delete", key |-> h, token |-> NoToken,
                found |-> FALSE, before |-> store, at |-> now]
    /\ UNCHANGED <<coreVars, erq, ares, main, usedTokensFile, trail, suspended>>

NextStore ==
  \/ StoreCall
  \/ RetrieveCall
  \/ HasCall
  \/ DeleteCall
  \/ Tick

SpecStore == Init /\ [][NextStore]_vars

\* Adapter calls that share the event loop. A call that awaits
\* executeWithAuthority is suspended until the child is done, and other
\* callers (adapter calls, the approver) run meanwhile. The suspended call
\* keeps its locals: the frame with the proposal_hash of step 2, and the token
\* and the proposal it handed to the kernel.
SuspendedCall(frame, token, proposal) ==
  [frame |-> frame, token |-> token, proposal |-> proposal]

\* spawn(...); await new Promise(...): the kernel call and the adapter call
\* that awaits it are suspended
SpawnSuspend ==
  /\ ares.stage = "kernel"
  /\ KernelSpawn
  /\ suspended' = suspended \cup {SuspendedCall(ares, cur.token, cur.proposal)}
  /\ ares' = NoAdapterResult
  /\ UNCHANGED <<store, main, usedTokensFile, trail>>

\* the child of a suspended call is done: the call goes on after its await,
\* or in its catch block
ReturnSuspended ==
  /\ ares.stage \in {"idle", "done"}
  /\ \E s \in suspended, outcome \in ChildOutcomes :
     \E kernelResult \in {kernelOutcome(outcome)} :
       /\ ChildExit(s.token.token_id)
       /\ suspended' = suspended \ {s}
       /\ store' = IF s.frame.stored THEN deleteToken(store, s.frame.proposal_hash)
                   ELSE store
       /\ IF kernelResult.kind = "result"
          THEN /\ ares' = [s.frame EXCEPT !.stage = "done", !.verdict = "ALLOW",
                                          !.executed = TRUE,
                                          !.exit_code = kernelResult.exit_code,
                                          !.reason_code =
                                            allowReasonCode(s.frame.stored, s.token,
                                                            s.frame.mode)]
               /\ lastAudit' = adapterAudit(allowReasonCode(s.frame.stored, s.token,
                                                            s.frame.mode),
                                            s.frame.token_id, s.frame.command,
                                            s.frame.args, s.frame.mode, now)
          ELSE /\ ares' = [s.frame EXCEPT !.stage = "done", !.verdict = "STOP",
                                          !.reason_code = "PIPELINE_ERROR"]
               /\ lastAudit' = adapterAudit("PIPELINE_ERROR", s.frame.token_id,
                                            s.frame.command, s.frame.args, s.frame.mode,
                                            now)
  /\ UNCHANGED <<main, usedTokensFile, trail>>

\* the frame of a call after the pipeline gave r
pipelineFrame(call, r) ==
  IF r.decision = "STOP"
  THEN [call EXCEPT !.stage = "done", !.verdict = "STOP",
                    !.reason_code = "POLICY_MISS_STOP",
                    !.storeConsulted = TRUE, !.pipelineRan = TRUE]
  ELSE IF r.decision = "HOLD"
  THEN [call EXCEPT !.stage = "done", !.verdict = "HOLD",
                    !.reason_code = "POLICY_MISS_HOLD",
                    !.token_id = r.token.token_id,
                    !.storeConsulted = TRUE, !.pipelineRan = TRUE]
  ELSE [call EXCEPT !.stage = "issued", !.token_id = r.token.token_id,
                    !.storeConsulted = TRUE, !.pipelineRan = TRUE]

\* Steps 2-6 of a call that reaches the pipeline, with the clock as the code
\* reads it: new Date() in the buildCanonicalProposal of step 2, and new
\* Date() again in the buildCanonicalProposal of the pipeline, elapsed later.
AdapterEnterLater(command, args, mode, allowWithAudit, elapsed) ==
  /\ kpc = "idle"
  /\ ares.stage \in {"idle", "done"}
  /\ nextId < MaxIssued
  /\ now + elapsed <= MaxTicks * TickMs
  /\ \E call \in {adapterCall(command, args, mode, policyFile, now)} :
     \E r \in {pipelineResult(command, args, mode, allowWithAudit, "none",
                               policyFile, host, now + elapsed, nextId + 1)} :
       /\ ~(isAdminScope(call.scope) /\ mode = STRICT)
       /\ ~retrieveToken(store, call.proposal_hash, now).found
       /\ ~scopeRequiresPreApprovedToken(call.scope)
       /\ store' = afterRetrieve(store, call.proposal_hash, now)
       /\ now' = now + elapsed
       /\ pipe' = r
       /\ nextId' = IF r.hasToken THEN nextId + 1 ELSE nextId
       /\ lastAudit' = pipelineAudit(r, command, args, mode, now + elapsed, lastAudit)
       /\ ares' = pipelineFrame(call, r)
  /\ UNCHANGED <<policyFile, host, usedTokenIds, kpc, cur, kerr, running, spawned,
                 presented, evalVars, main, usedTokensFile, trail, suspended>>

\* the time between the two readings of the clock
Elapsed == {0, HalfMinuteMs}

\* a request that the policy allows, and one of admin scope that needs a
\* stored token
InterleavedRequests ==
  {<<"echo", <<"b">>, STRICT, FALSE>>, <<"sudo", <<"a">>, PERMISSIVE, FALSE>>}

RequestAtOnce ==
  \E rq \in InterleavedRequests :
    executeWithOpenClawAuthority(openClawProposal(rq[1], rq[2]), rq[3], rq[4])

RequestLater ==
  \E rq \in InterleavedRequests, elapsed \in Elapsed :
    AdapterEnterLater(rq[1], rq[2], rq[3], rq[4], elapsed)

NextInterleaved ==
  \/ RequestAtOnce
  \/ RequestLater
  \/ Approval
  \/ AdapterKernel
  \/ AdapterCatch
  \/ MarkUsed
  \/ SpawnSuspend
  \/ ReturnSuspended
  \/ Tick

SpecInterleaved == Init /\ [][NextInterleaved]_vars

\* The validator alone, on proposals that depart from a well-formed one in at
\* most two fields (and on values that are no object at all).
MaxPieces == 3
MaxArgs == 2

CommandPieces == {"echo", " ", "\n", "|"}

CommandTexts ==
  UNION {[1..n -> CommandPieces] : n \in 0..MaxPieces}
    \cup {<<c>> : c \in SHELL_METACHARACTERS \cup Whitespace}
    \cup {<<"echo", c>> : c \in SHELL_METACHARACTERS \cup Whitespace}

ArgItems ==
  {NotAString, Str(<<"a">>), Str(<<"a", " ", "b">>), Str(<<"a", "\n", "b">>),
   Str(<<"\r">>), Str(<<"|">>)}

FieldValues ==
  ({"command"} \X ({Str(t) : t \in CommandTexts} \cup {NotAString, Undefined}))
    \cup ({"session_id", "turn_id", "agent_id"}
            \X {Str(<<"s">>), Str(<<>>), Str(<<" ">>), Str(<<" ", "s">>), NotAString,
                Undefined})
    \cup ({"args"} \X ({Arr(s) : s \in UNION {[1..n -> ArgItems] : n \in 0..MaxArgs}}
                         \cup {Str(<<"a", " ", "b">>), Undefined}))
    \cup ({"source"} \X {Str(<<"openclaw">>), Str(<<"other">>), Undefined})
    \cup ({"cwd", "policy_ref"} \X {Undefined, Str(<<"p">>), NotAString})
    \cup ({"requested_mode"}
            \X {Undefined, Str(<<STRICT>>), Str(<<PERMISSIVE>>), Str(<<"OTHER">>),
                NotAString})

InitValidate ==
  /\ InitProcess
  /\ usedTokensFile = <<>>
  /\ policyFile = 1
  /\ eres = NoEvaluation
  /\ \E fv \in FieldValues, gw \in FieldValues, isObject \in BOOLEAN :
       erq = [kind |-> "validate",
              input |-> [openClawProposal("echo", <<"a">>) EXCEPT
                           ![fv[1]] = fv[2], ![gw[1]] = gw[2], !.isObject = isObject]]

Validate ==
  /\ erq.kind = "validate" /\ ~eres.done
  /\ eres' = [done |-> TRUE, result |-> validateOpenClawProposal(erq.input)]
  /\ UNCHANGED <<coreVars, erq, adapterVars>>

NextValidate == Validate

SpecValidate == InitValidate /\ [][NextValidate]_vars

\* The canonical proposal alone: two proposals built for any two requests,
\* policy contents and times half a minute apart or more.
MaxHalfMinutes == 3

HashTimes == {k * HalfMinuteMs : k \in 0..MaxHalfMinutes}

HashRequests ==
  [command : Commands, args : EvalArgVectors, policy : {1, 2}, at : HashTimes]

InitHash ==
  /\ InitProcess
  /\ usedTokensFile = <<>>
  /\ policyFile = 1
  /\ eres = NoEvaluation
  /\ \E a, b \in HashRequests : erq = [kind |-> "hash", first |-> a, second |-> b]

proposalHashOf(rq) ==
  canonicalHash(buildCanonicalProposal(rq.command, rq.args, rq.policy, rq.at))

BuildProposals ==
  /\ erq.kind = "hash" /\ ~eres.done
  /\ eres' = [done |-> TRUE, first |-> proposalHashOf(erq.first),
              second |-> proposalHashOf(erq.second)]
  /\ UNCHANGED <<coreVars, erq, adapterVars>>

NextHash == BuildProposals

SpecHash == InitHash /\ [][NextHash]_vars

\* ------------------------------------------------------------ audit trail
\* What one process hands to its audit sinks (appendAuditRecord for the
\* pipeline, emitAuditLog for the kernel) and what the kernel does, in the
\* order of the statements that do it.
TrailEvent(kind, event, tokenId, executed, errorType) ==
  [kind |-> kind, event |-> event, token_id |-> tokenId, executed |-> executed,
   error_type |-> errorType]

\* appendAuditRecord({ event, token_id, ... }) of the pipeline
issuanceEvent(record) == TrailEvent("pipeline", record.event, record.token_id, FALSE, "none")
\* executeWithAuthority entered
callEvent(tokenId) == TrailEvent("call", "none", tokenId, FALSE, "none")
\* emitAuditLog({ ...auditBase, executed: false, error_type })
deniedEvent(tokenId, errorType) == TrailEvent("outcome", "none", tokenId, FALSE, errorType)
\* markTokenUsed(token.token_id, ...)
markUsedEvent(tokenId) == TrailEvent("mark_used", "none", tokenId, FALSE, "none")
\* emitAuditLog({ ...auditBase, executed: true })
executedEvent(tokenId) == TrailEvent("outcome", "none", tokenId, TRUE, "none")
\* spawn(command, args, ...)
spawnEvent(tokenId) == TrailEvent("spawn", "none", tokenId, FALSE, "none")

\* child.on('close', ...), child.on('error', ...): what became of the child
childEvent(tokenId, outcomeKind) == TrailEvent("child", outcomeKind, tokenId, FALSE, "none")

MaxTrail == 14

AuditedIssue ==
  /\ Len(trail) < MaxTrail
  /\ \E rq \in IssueRequests : RunPipeline(rq[1], rq[2], rq[3], rq[4], "none")
  /\ trail' = Append(trail, issuanceEvent(lastAudit'))
  /\ UNCHANGED <<store, ares, main, usedTokensFile, suspended>>

AuditedCall ==
  /\ Len(trail) + 5 <= MaxTrail
  /\ pipe.hasToken
  /\ KernelCall(pipe.call.command, pipe.call.args, pipe.proposal, pipe.token)
  /\ trail' = Append(trail, callEvent(pipe.token.token_id))
  /\ UNCHANGED <<store, ares, main, usedTokensFile, suspended>>

AuditedThrow ==
  /\ KernelThrow
  /\ trail' = Append(trail, deniedEvent(cur.token.token_id, kerr))
  /\ UNCHANGED <<lastAudit, store, ares, main, usedTokensFile, suspended>>

AuditedMarkUsed ==
  /\ KernelMarkUsed
  /\ trail' = Append(trail, markUsedEvent(cur.token.token_id))
  /\ UNCHANGED <<store, ares, main, usedTokensFile, suspended>>

AuditedSpawn ==
  /\ KernelSpawn
  /\ trail' = trail \o <<executedEvent(cur.token.token_id), spawnEvent(cur.token.token_id)>>
  /\ UNCHANGED <<store, ares, main, usedTokensFile, suspended>>

AuditedExit ==
  /\ \E call \in running, outcome \in ChildOutcomes :
       /\ ChildExit(call)
       /\ trail' = Append(trail, childEvent(call, outcome.kind))
  /\ UNCHANGED <<lastAudit, store, ares, main, usedTokensFile, suspended>>

NextAudit ==
  \/ AuditedIssue
  \/ AuditedCall
  \/ AuditedThrow
  \/ AuditedMarkUsed
  \/ AuditedSpawn
  \/ AuditedExit
  \/ Tick

SpecAudit == Init /\ [][NextAudit]_vars

\* ------------------------------------------------------------- hydration
HydrateTimes == {0, TickMs}
HydrateIds == 1..MaxIssued
FileLines ==
  {Record(i, e) : i \in HydrateIds,
                  e \in {NoExpiry, InvalidDate} \cup {ExpiresAt(t) : t \in HydrateTimes}}
    \cup {RecordWithoutId, BlankLine, MalformedLine, NullLine}
Files == UNION {[1..n -> FileLines] : n \in 0..MaxLines}

InitHydrate ==
  /\ InitProcess
  /\ usedTokensFile = <<>>
  /\ policyFile = 1
  /\ eres = NoEvaluation
  /\ \E lines \in Files, fileState \in FileStates, t \in HydrateTimes :
       erq = [kind |-> "hydrate", lines |-> lines, fileState |-> fileState, at |-> t]

\* initRegistry() at process start, over the file of erq; the function has no
\* write, so the file it leaves is the file it found
Hydrate ==
  /\ erq.kind = "hydrate" /\ ~eres.done
  /\ eres' = [done |-> TRUE,
              ids |-> initRegistry({}, readRecords(erq.fileState, erq.lines, erq.at)),
              lines |-> erq.lines]
  /\ UNCHANGED <<coreVars, erq, adapterVars>>

NextHydrate == Hydrate

SpecHydrate == InitHydrate /\ [][NextHydrate]_vars

\* A used token across a restart: the token was issued at issuedAt and used;
\* the file holds its record, with the token's expires_at or without one,
\* among other lines; a process starts at startAt, and at callAt, not before
\* startAt, the token is presented to its kernel.
Instants == {k * TickMs : k \in 0..MaxTicks}

usedToken(issuedAt) ==
  issueToken(1, 1, "ALLOW", canonicalHash(buildCanonicalProposal("echo", <<"a">>, 1, issuedAt)),
             hashPolicyFile(1), buildEnvironmentFingerprint(1, 1), issuedAt,
             STRICT, FALSE, TRUE)

OtherLines == {Record(2, NoExpiry), BlankLine, MalformedLine}

RestartFiles(token) ==
  {<<own>> : own \in {Record(token.token_id, NoExpiry),
                       Record(token.token_id, ExpiresAt(token.expires_at))}}
    \cup {<<other, own>> :
            other \in OtherLines,
            own \in {Record(token.token_id, NoExpiry),
                     Record(token.token_id, ExpiresAt(token.expires_at))}}
    \cup {<<own, other>> :
            other \in OtherLines,
            own \in {Record(token.token_id, NoExpiry),
                     Record(token.token_id, ExpiresAt(token.expires_at))}}

InitReplay ==
  /\ InitProcess
  /\ usedTokensFile = <<>>
  /\ policyFile = 1
  /\ eres = NoEvaluation
  /\ \E issuedAt \in {0, TickMs}, startAt \in Instants, callAt \in Instants :
       /\ issuedAt <= startAt /\ startAt <= callAt
       /\ \E lines \in RestartFiles(usedToken(issuedAt)) :
            erq = [kind |-> "replay", token |-> usedToken(issuedAt),
                   proposal |-> buildCanonicalProposal("echo", <<"a">>, 1, issuedAt),
                   lines |-> lines, startAt |-> startAt, callAt |-> callAt]

\* initRegistry() at startAt, then steps 1 to 7 of the kernel at callAt
HydrateThenPresent ==
  /\ erq.kind = "replay" /\ ~eres.done
  /\ \E ids \in {initRegistry({}, readRecords("read", erq.lines, erq.startAt))} :
       eres' = [done |-> TRUE, ids |-> ids,
                error_type |-> verifyToken(erq.token, erq.proposal, erq.callAt, ids, 1, 1)]
  /\ UNCHANGED <<coreVars, erq, adapterVars>>

NextReplay == HydrateThenPresent

SpecReplay == InitReplay /\ [][NextReplay]_vars

\* ================================================================== claims

\* The seven verifications, each on its own, for a presented (proposal, token).
ttlOk(token, t) == t <= token.expires_at
decisionOk(token) == token.decision = "ALLOW"
replayOk(token, used) == token.token_id \notin used
proposalOk(token, proposal) == token.proposal_hash = canonicalHash(proposal)
policyOk(token, f) == token.policy_hash = hashPolicyFile(f)
envOk(token, h, f) == token.environment_fingerprint = buildEnvironmentFingerprint(h, f)
signatureOk(token) ==
  /\ token.issuer_signature.signed = Payload(token)
  /\ token.issuer_signature.by = token.public_key_hex

CheckResults(token, proposal, t, used, f, h) ==
  << ttlOk(token, t), decisionOk(token), replayOk(token, used),
     proposalOk(token, proposal), policyOk(token, f), envOk(token, h, f),
     signatureOk(token) >>

DenialKinds ==
  << "TOKEN_EXPIRED", "DECISION_NOT_ALLOW", "TOKEN_REPLAYED", "PROPOSAL_HASH_MISMATCH",
     "POLICY_HASH_MISMATCH", "ENV_FINGERPRINT_MISMATCH", "SIGNATURE_INVALID" >>

\* the checks of the activation that is running, on the state it runs in
CurChecks == CheckResults(cur.token, cur.proposal, now, usedTokenIds, policyFile, host)

AllSevenPass(checks) == \A i \in 1..7 : checks[i]

\* the kernel has just decided on the presented (proposal, token)
Decided == kpc \in {"denied", "verified"}

\* C1: spawn is invoked only in a call in which all seven checks passed on the
\* presented (proposal, token); a call in which any check fails raises a
\* denial and invokes no spawn.
C1_SpawnOnlyAfterSevenChecks ==
  [][ /\ (kpc' = "verified" /\ kpc = "idle") => AllSevenPass(CurChecks')
      /\ (kpc' = "denied" /\ kpc = "idle") => ~AllSevenPass(CurChecks')
      /\ (kpc = "idle" /\ cur' # cur) => kpc' \in {"verified", "denied"}
      /\ kpc' = "marked" => kpc \in {"verified", "marked"}
      /\ kpc = "denied" => (kpc' \in {"denied", "idle"} /\ spawned' = spawned)
      /\ spawned' # spawned =>
           /\ kpc = "marked"
           /\ spawned' = [spawned EXCEPT ![cur.token.token_id] = @ + 1] ]_vars

C1_Witness == kpc = "denied" /\ \E id \in TokenIds : spawned[id] = 1

\* C2: a call whose command or args differ from the command and args of the
\* proposal the token was issued for is denied with PROPOSAL_HASH_MISMATCH (the
\* earlier checks passing) and does not spawn; the command and the args that
\* the kernel spawns are the ones bound by token.proposal_hash.
HandedOverDiffers ==
  cur.command # cur.token.proposal_hash[2] \/ cur.args # cur.token.proposal_hash[1]

C2_SpawnsBoundCommand ==
  /\ (kpc \in {"verified", "marked"} /\ cur.token = pipe.token) => ~HandedOverDiffers
  /\ (Decided /\ HandedOverDiffers /\ ttlOk(cur.token, now) /\ decisionOk(cur.token)
        /\ replayOk(cur.token, usedTokenIds)
        /\ cur.proposal = pipe.proposal /\ cur.token = pipe.token) =>
       (kpc = "denied" /\ kerr = "PROPOSAL_HASH_MISMATCH")

\* C3 (as claimed): once a call with token t has spawned, every later call
\* presenting the same token_id while t is unexpired is denied with
\* TOKEN_REPLAYED.  (Every token that passes under an issued id carries the
\* expires_at of the issued token.)
C3_ReplayAlwaysTokenReplayed ==
  (Decided /\ pipe.hasToken /\ cur.token.token_id = pipe.token.token_id
     /\ spawned[cur.token.token_id] >= 1 /\ now <= pipe.token.expires_at) =>
    (kpc = "denied" /\ kerr = "TOKEN_REPLAYED")

\* C3 (amended): once a call with token t has spawned, every later call
\* presenting the same token_id is denied and does not spawn; the denial is
\* TOKEN_REPLAYED when the presented token is unexpired with decision ALLOW
\* (so when it is t itself), TOKEN_EXPIRED or DECISION_NOT_ALLOW otherwise.
C3_ReplayDenied ==
  (Decided /\ spawned[cur.token.token_id] >= 1) =>
    /\ kpc = "denied"
    /\ kerr = IF ~ttlOk(cur.token, now) THEN "TOKEN_EXPIRED"
              ELSE IF ~decisionOk(cur.token) THEN "DECISION_NOT_ALLOW"
              ELSE "TOKEN_REPLAYED"

C3_Witness ==
  /\ kpc = "denied" /\ kerr = "TOKEN_REPLAYED"
  /\ pipe.hasToken /\ cur.token = pipe.token /\ cur.proposal = pipe.proposal
  /\ spawned[cur.token.token_id] = 1

\* C4: over every interleaving of kernel calls, spawn is invoked at most once
\* per token_id; while one call is between its replay check and its mark_used
\* no other call is past its replay check.
C4_AtMostOneSpawnPerTokenId ==
  /\ \A id \in TokenIds : spawned[id] <= 1
  /\ kpc \in {"verified", "marked"} => cur.token.token_id \notin running

\* a second call on a token whose first call is still waiting for its child
C4_Witness ==
  /\ kpc = "denied" /\ kerr = "TOKEN_REPLAYED"
  /\ cur.token.token_id \in running
  /\ cur.token = pipe.token

\* C5: at the moment spawn is invoked the token_id is in the used registry,
\* and it stays there while the child runs, hangs or has gone.
C5_MarkedBeforeSpawn ==
  [][ /\ spawned' # spawned => cur.token.token_id \in usedTokenIds
      /\ running' \subseteq usedTokenIds'
      /\ usedTokenIds \subseteq usedTokenIds' ]_vars

C5_Witness ==
  /\ kpc = "idle"
  /\ \E id \in running : spawned[id] = 1 /\ id \in usedTokenIds
  /\ pipe.hasToken /\ now > pipe.token.expires_at

\* C6: the denial raised is the one of the first failing check in the order
\* TTL, decision, replay, proposal hash, policy hash, environment, signature.
FirstFailing(checks) ==
  LET failing == {i \in 1..7 : ~checks[i]}
  IN  IF failing = {} THEN 0
      ELSE CHOOSE i \in failing : \A j \in failing : i <= j

C6_FirstFailingCheckDecides ==
  /\ kpc = "denied" =>
       /\ FirstFailing(CurChecks) # 0
       /\ kerr = DenialKinds[FirstFailing(CurChecks)]
  /\ (kpc = "denied" /\ ~ttlOk(cur.token, now) /\ ~signatureOk(cur.token)) =>
       kerr = "TOKEN_EXPIRED"
  /\ (kpc = "denied" /\ ttlOk(cur.token, now) /\ cur.token.decision = "HOLD"
        /\ cur.token.token_id \in usedTokenIds) =>
       kerr = "DECISION_NOT_ALLOW"

\* an already-used token presented as HOLD: decision, replay and signature fail
C6_Witness ==
  /\ kpc = "denied" /\ kerr = "DECISION_NOT_ALLOW"
  /\ cur.token.decision = "HOLD"
  /\ cur.token.token_id \in usedTokenIds
  /\ ~signatureOk(cur.token)

\* C7: the decision of runAuthorityPipeline as a function of the evaluator's
\* verdict, gate_mode and allow_with_audit (in every run of the pipeline that
\* raises no internal exception).
C7_DecisionMatrix ==
  ~pipe.error =>
    LET verdict == pipe.call.verdict
        mode == pipe.call.gate_mode
        audit == pipe.call.allowWithAudit
        allowToken == /\ pipe.decision = "ALLOW" /\ pipe.hasToken
                      /\ pipe.token.decision = "ALLOW"
        holdToken == /\ pipe.decision = "HOLD" /\ pipe.hasToken
                     /\ pipe.token.decision = "HOLD"
    IN  /\ verdict = "ALLOW" => allowToken
        /\ (verdict = "DENY" /\ mode = STRICT) => (pipe.decision = "STOP" /\ ~pipe.hasToken)
        /\ (verdict = "DENY" /\ mode = PERMISSIVE /\ ~audit) => holdToken
        /\ (verdict = "DENY" /\ mode = PERMISSIVE /\ audit) => allowToken

C7_Witness ==
  /\ pipe.call.verdict = "DENY" /\ pipe.call.gate_mode = PERMISSIVE
  /\ pipe.call.allowWithAudit /\ pipe.hasToken /\ pipe.token.decision = "ALLOW"

\* C8: an ALLOW token is issued only when the evaluator returned ALLOW, or when
\* gate_mode = PERMISSIVE, allow_with_audit is set and the command's scope is
\* not admin, and then audited_permit is set; audited_permit is set on no token
\* for which the evaluator returned ALLOW.
C8_AllowTokenOrigin ==
  (pipe.hasToken /\ pipe.token.decision = "ALLOW") =>
    /\ \/ pipe.call.verdict = "ALLOW"
       \/ /\ pipe.call.gate_mode = PERMISSIVE
          /\ pipe.call.allowWithAudit
          /\ pipe.call.scope # "admin"
    /\ pipe.call.verdict # "ALLOW" => pipe.token.audited_permit
    /\ pipe.call.verdict = "ALLOW" => ~pipe.token.audited_permit

\* C9: every call presenting an unexpired token whose decision is not ALLOW
\* raises DECISION_NOT_ALLOW; no call on such a token reaches spawn.
C9_NonAllowNeverSpawns ==
  /\ (Decided /\ ttlOk(cur.token, now) /\ cur.token.decision # "ALLOW") =>
       (kpc = "denied" /\ kerr = "DECISION_NOT_ALLOW")
  /\ kpc \in {"verified", "marked"} => cur.token.decision = "ALLOW"

\* the HOLD token as the pipeline issued it, validly signed, presented in the
\* environment it was issued in
C9_Witness ==
  /\ kpc = "denied" /\ kerr = "DECISION_NOT_ALLOW"
  /\ pipe.hasToken /\ cur.token = pipe.token /\ pipe.decision = "HOLD"
  /\ signatureOk(cur.token) /\ policyOk(cur.token, policyFile)
  /\ proposalOk(cur.token, cur.proposal)

\* C10: a pipeline result carries a token and a proposal exactly when its
\* decision is ALLOW or HOLD; a STOP result (policy miss under STRICT, or a
\* pipeline error) carries neither.
C10_TokenIffAllowOrHold ==
  /\ pipe.hasToken <=> pipe.decision \in {"ALLOW", "HOLD"}
  /\ pipe.hasProposal <=> pipe.decision \in {"ALLOW", "HOLD"}
  /\ pipe.decision \in {"ALLOW", "HOLD", "STOP"}
  /\ pipe.hasToken => pipe.token.decision = pipe.decision
  /\ (pipe.error \/ (pipe.call.gate_mode = STRICT /\ pipe.call.verdict = "DENY")) =>
       (pipe.decision = "STOP" /\ ~pipe.hasToken /\ ~pipe.hasProposal)

C10_Witness ==
  /\ pipe.decision = "STOP" /\ ~pipe.hasToken /\ ~pipe.error
  /\ pipe.call.gate_mode = STRICT /\ pipe.call.verdict = "DENY"
  /\ pipe.call.command = "sudo"

PolicyFails(f) ==
  \/ f = 0
  \/ PolicyDocs[f].parsed # "object"
  \/ PolicyDocs[f].default \notin {"DENY", "ALLOW"}
  \/ ~PolicyDocs[f].rulesIsArray

Evaluated == erq.kind = "evaluate" /\ eres.done

\* C12: for every policy file that fails to load, evaluate returns DENY for
\* every (command, args); evaluate always returns a verdict and never raises.
C12_EvaluateFailClosedAndTotal ==
  Evaluated =>
    /\ ~eres.result.threw
    /\ eres.result.verdict \in {"ALLOW", "DENY"}
    /\ PolicyFails(policyFile) => eres.result.verdict = "DENY"

\* what the argument constraint of a rule asks of an argument vector
ArgsSatisfy(args, rule) ==
  \/ ~rule.hasArgs
  \/ rule.args = <<"*">>
  \/ /\ Len(args) = Len(rule.args)
     /\ \A i \in 1..Len(rule.args) : rule.args[i] \in {args[i], "*"}

Matched == erq.kind = "matchesRule" /\ eres.done

\* C13: a rule matches a request exactly when the commands are equal and the
\* argument constraint holds; a rule with an empty args list matches only the
\* empty vector, a '*' inside a longer list matches exactly one argument.
C13_MatchesRule ==
  Matched =>
    /\ eres.result <=> (erq.rule.command = erq.command /\ ArgsSatisfy(erq.args, erq.rule))
    /\ (erq.rule.hasArgs /\ erq.rule.args = <<>>) =>
         (eres.result <=> (erq.rule.command = erq.command /\ erq.args = <<>>))
    /\ (erq.rule.hasArgs /\ erq.rule.args = <<"a", "*">>) =>
         (eres.result <=> (/\ erq.rule.command = erq.command
                           /\ Len(erq.args) = 2 /\ erq.args[1] = "a"))
    /\ (~erq.rule.hasArgs \/ erq.rule.args = <<"*">>) =>
         (eres.result <=> erq.rule.command = erq.command)

\* a '*' that closes a longer list does not swallow the rest of the arguments
C13_Witness ==
  /\ Matched /\ ~eres.result
  /\ erq.rule.command = erq.command
  /\ erq.rule.hasArgs /\ erq.rule.args = <<"a", "*">>
  /\ erq.args = <<"a", "b", "c">>

\* the rules of the loaded policy that match the request
MatchingRules ==
  LET rules == loadPolicy(policyFile).rules
  IN  {i \in 1..Len(rules) :
         /\ rules[i].isObject
         /\ rules[i].command = erq.command
         /\ ArgsSatisfy(erq.args, rules[i])}

\* C14: in every evaluation that returns on a valid policy, the earliest
\* matching rule decides (verdict ALLOW, its scope recorded), whatever the
\* later rules are; when no rule matches, the result is the policy's default
\* with the 'no rule matched' reason.
C14_FirstMatchWins ==
  (Evaluated /\ ~PolicyFails(policyFile) /\ ~eres.result.threw) =>
    LET rules == loadPolicy(policyFile).rules
    IN  /\ MatchingRules # {} =>
             /\ eres.result.matched \in MatchingRules
             /\ \A j \in MatchingRules : eres.result.matched <= j
             /\ eres.result.verdict = "ALLOW"
             /\ eres.result.scope = rules[eres.result.matched].scope
             /\ eres.result.reason = "policy_match"
        /\ MatchingRules = {} =>
             /\ eres.result.matched = 0
             /\ eres.result.verdict = loadPolicy(policyFile).default
             /\ eres.result.reason = "no_rule_matched"

\* two rules match, with different scopes: the earlier one is recorded
C14_Witness ==
  /\ Evaluated /\ ~PolicyFails(policyFile)
  /\ Cardinality(MatchingRules) >= 2
  /\ \E j \in MatchingRules :
       loadPolicy(policyFile).rules[j].scope # eres.result.scope

\* C15: every call of runAuthorityPipeline returns; when an exception was
\* raised inside it (building the proposal, evaluating, signing), the result
\* is STOP with the pipeline_error reason, without token and without proposal,
\* and the record handed to the audit sink is the PIPELINE_ERROR record of
\* this call.
C15_ExceptionsBecomeStop ==
  pipe.call.threw =>
    /\ pipe.decision = "STOP"
    /\ pipe.reason = "pipeline_error"
    /\ pipe.proposal_hash = <<"error">>
    /\ ~pipe.hasToken /\ pipe.token = NoToken
    /\ ~pipe.hasProposal /\ pipe.proposal = NoProposal
    /\ lastAudit.event = "PIPELINE_ERROR"
    /\ lastAudit.command = pipe.call.command /\ lastAudit.args = pipe.call.args
    /\ lastAudit.gate_mode = pipe.call.gate_mode

\* an exception in a run that follows a run which issued a token
C15_Witness ==
  /\ pipe.call.threw /\ pipe.decision = "STOP"
  /\ nextId > 0
  /\ lastAudit.event = "PIPELINE_ERROR"

\* the token presented to the running call is the issued token with a signed
\* field changed, under the issuer's signature and key as issued
MutatedUnsigned ==
  /\ Decided /\ pipe.hasToken
  /\ Payload(cur.token) # Payload(pipe.token)
  /\ cur.token.issuer_signature = pipe.token.issuer_signature
  /\ cur.token.public_key_hex = pipe.token.public_key_hex

\* C16 (as claimed): a token with a signed field mutated and not signed again
\* is denied with SIGNATURE_INVALID.
C16_MutationAlwaysSignatureInvalid ==
  MutatedUnsigned => (kpc = "denied" /\ kerr = "SIGNATURE_INVALID")

\* C16: a token with a signed field mutated and not signed again is always
\* denied and never reaches spawn; the denial is SIGNATURE_INVALID exactly when
\* the mutated token still passes the six earlier steps, and otherwise the
\* denial of the first of those steps that fails.
C16_MutationDenied ==
  MutatedUnsigned =>
    /\ kpc = "denied"
    /\ ~signatureOk(cur.token)
    /\ \E i \in 1..7 :
         /\ ~CurChecks[i]
         /\ \A j \in 1..(i - 1) : CurChecks[j]
         /\ kerr = DenialKinds[i]
    /\ kerr = "SIGNATURE_INVALID" <=> (\A j \in 1..6 : CurChecks[j])

\* a HOLD token whose decision was rewritten to ALLOW is stopped by the
\* signature step
C16_Witness ==
  /\ MutatedUnsigned
  /\ pipe.token.decision = "HOLD" /\ cur.token.decision = "ALLOW"
  /\ kpc = "denied" /\ kerr = "SIGNATURE_INVALID"

\* the issued token is presented untouched with its own proposal, unexpired
\* and not yet used
OwnTokenDecided ==
  /\ Decided /\ pipe.hasToken
  /\ cur.token = pipe.token /\ cur.proposal = pipe.proposal
  /\ pipe.token.decision = "ALLOW"
  /\ now <= pipe.token.expires_at
  /\ pipe.token.token_id \notin usedTokenIds

\* the policy file and the host as they were when the token was issued
PolicyChangedSinceIssue == hashPolicyFile(policyFile) # pipe.token.policy_hash
HostChangedSinceIssue == host # pipe.token.environment_fingerprint[1]

\* C17: a change of the policy file between issuance and the kernel call is
\* denied with POLICY_HASH_MISMATCH (also when the host changed as well); a
\* change of the host with the policy unchanged is denied with
\* ENV_FINGERPRINT_MISMATCH; neither call spawns.
C17_PolicyAndHostSteps ==
  OwnTokenDecided =>
    /\ PolicyChangedSinceIssue =>
         (kpc = "denied" /\ kerr = "POLICY_HASH_MISMATCH")
    /\ (~PolicyChangedSinceIssue /\ HostChangedSinceIssue) =>
         (kpc = "denied" /\ kerr = "ENV_FINGERPRINT_MISMATCH")
    /\ (~PolicyChangedSinceIssue /\ ~HostChangedSinceIssue) => kpc = "verified"

\* both the policy and the host changed: the policy step reports
C17_Witness ==
  /\ OwnTokenDecided
  /\ PolicyChangedSinceIssue /\ HostChangedSinceIssue
  /\ kerr = "POLICY_HASH_MISMATCH"

\* the host alone changed: the environment step reports
C17_WitnessHost ==
  /\ OwnTokenDecided
  /\ ~PolicyChangedSinceIssue /\ HostChangedSinceIssue
  /\ kerr = "ENV_FINGERPRINT_MISMATCH"

\* a call is entered with the issued token, untouched and unexpired
OwnTokenEntered ==
  /\ kpc = "idle" /\ kpc' # "idle"
  /\ pipe.hasToken /\ cur'.token = pipe.token
  /\ now <= pipe.token.expires_at

\* C18: once the issued token was presented and passed the replay step, every
\* later presentation of it (unexpired) is denied with TOKEN_REPLAYED, whether
\* the first presentation spawned or was denied at a later step.
C18_ConsumedOnPresentation ==
  [][ (OwnTokenEntered /\ pipe.token.token_id \in presented) =>
        (kpc' = "denied" /\ kerr' = "TOKEN_REPLAYED") ]_vars

\* a token denied at the proposal step spawns on its second presentation
C18_SecondPresentationSpawns ==
  /\ kpc = "verified" /\ pipe.hasToken /\ cur.token = pipe.token
  /\ pipe.token.token_id \in presented
  /\ pipe.token.token_id \notin usedTokenIds

\* C19: a request that a rule of scope net or fs matches is never spawned
\* through the adapter on a token issued in the same call: without a stored
\* token the call ends in HOLD / SCOPE_ELEVATION_HOLD with neither the
\* pipeline nor the kernel run; the scope is that of the rule the evaluator
\* matches for (command, args).
C19_ElevatedScopeNeverAutoIssued ==
  (ares.stage # "idle" /\ ares.ruleScope \in {"net", "fs"} /\ ~ares.stored) =>
    /\ ares.stage = "done"
    /\ ares.verdict = "HOLD" /\ ares.reason_code = "SCOPE_ELEVATION_HOLD"
    /\ ~ares.pipelineRan /\ ~ares.kernelRan /\ ~ares.executed

\* a request matched by a rule of scope net, spawned on a token issued in the
\* same call
C19_NetRuleSpawned ==
  /\ ares.stage = "done" /\ ares.executed /\ ~ares.stored
  /\ ares.ruleScope = "net" /\ ares.scope = "safe"
  /\ spawned[ares.token_id] = 1

AdapterEntered ==
  /\ ares.stage \in {"idle", "done"} /\ ares' # ares
  /\ ~(ares'.scope = "admin" /\ ares'.mode = STRICT)

\* the denial of the first of the seven checks that fails for the running call
CurDenial ==
  DenialKinds[CHOOSE i \in 1..7 : ~CurChecks[i] /\ \A j \in 1..(i - 1) : CurChecks[j]]

\* C21 (as claimed): whatever token is stored under the hash of the request,
\* the adapter hands it to the kernel; one that is expired, HOLD, used, bound
\* to something else or badly signed gives STOP with the kernel's reason.
C21_EveryStoredTokenReachesKernel ==
  [][ (AdapterEntered /\ \E e \in store : e.key = ares'.proposal_hash) =>
        /\ ares'.stored /\ ares'.kernelRan
        /\ kpc' = "verified" \/ (kpc' = "denied" /\ kerr' \in {DenialKinds[i] : i \in 1..7}) ]_vars

\* C21: an unexpired token stored under the hash of the request is handed to
\* the kernel with the request's proposal; the call spawns only if all seven
\* checks pass on it, and otherwise ends in STOP with the denial of the first
\* failing check as reason code and executed = false.  An expired stored token
\* is purged by retrieve and the call goes on as if nothing were stored.  A
\* call that spawned ends in ALLOW, or in STOP with PIPELINE_ERROR if the
\* child could not be started.
C21_StoredTokenThroughKernel ==
  [][ /\ AdapterEntered =>
           \A e \in store :
             e.key = ares'.proposal_hash =>
               IF now <= e.token.expires_at
               THEN /\ ares'.stored /\ ares'.stage = "kernel" /\ ~ares'.pipelineRan
                    /\ cur'.token = e.token
                    /\ canonicalHash(cur'.proposal) = ares'.proposal_hash
                    /\ cur'.command = ares'.command /\ cur'.args = ares'.args
                    /\ kpc' = "verified" <=> AllSevenPass(CurChecks')
                    /\ kpc' # "verified" => (kpc' = "denied" /\ kerr' = CurDenial')
                    /\ pipe' = pipe /\ nextId' = nextId
               ELSE ~ares'.stored /\ e \notin store'
      /\ (ares.stage = "kernel" /\ ares.stored /\ ares' # ares) =>
           IF kpc = "denied"
           THEN /\ ares'.stage = "done" /\ ares'.verdict = "STOP"
                /\ ares'.reason_code = kerr /\ ~ares'.executed
                /\ spawned' = spawned /\ usedTokenIds' = usedTokenIds
           ELSE /\ ares'.stage = "done"
                /\ spawned[ares.token_id] >= 1
                /\ \/ /\ ares'.verdict = "ALLOW" /\ ares'.executed
                      /\ ares'.reason_code = "PRE_APPROVED_TOKEN_ALLOW"
                   \/ /\ ares'.verdict = "STOP" /\ ~ares'.executed
                      /\ ares'.reason_code = "PIPELINE_ERROR"
      /\ (spawned' # spawned /\ ares.stored) =>
           (ares.stage = "kernel" /\ cur.token.token_id = ares.token_id) ]_vars

\* a stored token with a bad signature ended in STOP
C21_Witness ==
  /\ ares.stage = "done" /\ ares.stored
  /\ ares.verdict = "STOP" /\ ares.reason_code = "SIGNATURE_INVALID"
  /\ ~ares.executed

\* the records of a store under a key, and the unexpired ones among them
Under(st, h) == {e \in st : e.key = h}
LiveUnder(st, h, t) == {e \in Under(st, h) : t <= e.token.expires_at}

\* C22: after store(h, t), while t is unexpired, retrieve(h) returns t and h
\* holds no other record; retrieve(h) returns a token exactly when an unexpired
\* record was under h, that record's token, and purges an expired record;
\* has(h) is true exactly when retrieve(h) would return a token; after
\* delete(h) retrieve(h) returns none, and delete of an absent key changes
\* nothing.  No call touches the records under other keys.
C22_TokenStoreContract ==
  eres.done =>
    /\ \A h \in StoreKeys \ {eres.key} : Under(store, h) = Under(eres.before, h)
    /\ eres.op = "store" =>
         /\ Under(store, eres.key) = {[key |-> eres.key, token |-> eres.token]}
         /\ now <= eres.token.expires_at =>
              retrieveToken(store, eres.key, now) = [found |-> TRUE, token |-> eres.token]
    /\ eres.op = "retrieve" =>
         /\ eres.found <=> LiveUnder(eres.before, eres.key, eres.at) # {}
         /\ eres.found => [key |-> eres.key, token |-> eres.token] \in eres.before
         /\ eres.found => store = eres.before
         /\ ~eres.found => Under(store, eres.key) = {}
    /\ eres.op = "has" =>
         eres.found <=> LiveUnder(eres.before, eres.key, eres.at) # {}
    /\ eres.op = "delete" =>
         /\ Under(store, eres.key) = {}
         /\ ~retrieveToken(store, eres.key, now).found
         /\ Under(eres.before, eres.key) = {} => store = eres.before

\* retrieve found an expired record under the key, returned none and purged it
C22_Witness ==
  /\ eres.done /\ eres.op = "retrieve" /\ ~eres.found
  /\ Under(eres.before, eres.key) # {}
  /\ Under(store, eres.key) = {}
  /\ store # {}

\* ------------------------------------------------------------------ C24
Validated == erq.kind = "validate" /\ eres.done

\* the characters the claim lists for a command
ListedMetacharacters ==
  {"|", "&", ";", "<", ">", "backquote", "$", "\"", "'", "(", ")", "\n", "\r"}

HasAny(text, chars) == \E k \in 1..Len(text) : text[k] \in chars

Blank(v) == v.type # "string" \/ \A k \in 1..Len(v.text) : v.text[k] \in Whitespace

\* whitespace with a character that is no whitespace on either side of it
InnerWhitespace(text) ==
  \E a, b, c \in 1..Len(text) :
    /\ a < b /\ b < c
    /\ text[a] \notin Whitespace /\ text[b] \in Whitespace /\ text[c] \notin Whitespace

\* core is text without a run of whitespace at each end
TrimmedTo(text, core) ==
  /\ ~HasAny(core, Whitespace)
  /\ \E a, b \in 0..Len(text) :
       /\ a + b <= Len(text)
       /\ core = SubSeq(text, a + 1, Len(text) - b)
       /\ \A k \in 1..Len(text) : (k <= a \/ k > Len(text) - b) => text[k] \in Whitespace

BadArg(v) == v.type # "string" \/ HasAny(v.text, {"\n", "\r"})

\* the defects the claim files under VALIDATION_ERROR
MalformedAsListed(i) ==
  \/ i.args.type # "array"
  \/ \E k \in 1..Len(i.args.items) : i.args.items[k].type # "string"
  \/ i.source # Str(<<"openclaw">>)
  \/ \E f \in {"session_id", "turn_id", "agent_id"} : Blank(i[f])

ShellCommandAsListed(i) ==
  /\ i.command.type = "string"
  /\ \/ i.command.text = <<>>
     \/ HasAny(i.command.text, Whitespace)
     \/ HasAny(i.command.text, ListedMetacharacters)

ShellArgAsListed(i) ==
  /\ i.args.type = "array"
  /\ \E k \in 1..Len(i.args.items) :
       i.args.items[k].type = "string" /\ HasAny(i.args.items[k].text, {"\n", "\r"})

\* C24 (as claimed): a command that is empty, contains whitespace or contains a
\* listed metacharacter, or an argument with CR or LF, is rejected with
\* SHELL_STRING_REJECTED; args that are no sequence, an element that is no
\* string, another source tag, a missing or blank identity field are rejected
\* with VALIDATION_ERROR; every other proposal is accepted with its command
\* and args unchanged.
C24_ClassificationAsClaimed ==
  (Validated /\ erq.input.isObject) =>
    LET i == erq.input
        r == eres.result
    IN  /\ (ShellCommandAsListed(i) /\ ~MalformedAsListed(i)) =>
             (~r.valid /\ r.reason_code = "SHELL_STRING_REJECTED")
        /\ (ShellArgAsListed(i) /\ ~MalformedAsListed(i)) =>
             (~r.valid /\ r.reason_code = "SHELL_STRING_REJECTED")
        /\ (MalformedAsListed(i) /\ ~ShellCommandAsListed(i) /\ ~ShellArgAsListed(i)) =>
             (~r.valid /\ r.reason_code = "VALIDATION_ERROR")
        /\ (~MalformedAsListed(i) /\ ~ShellCommandAsListed(i) /\ ~ShellArgAsListed(i)) =>
             (r.valid /\ r.command = i.command.text /\ r.args = i.args.items)

\* the reason code of the first check that fails, "none" when none does
FirstRejection(i) ==
  IF \/ ~i.isObject
     \/ i.source # Str(<<"openclaw">>)
     \/ \E f \in {"session_id", "turn_id", "agent_id", "command"} : Blank(i[f])
  THEN "VALIDATION_ERROR"
  ELSE IF \/ InnerWhitespace(i.command.text)
          \/ HasAny(i.command.text, ListedMetacharacters \ Whitespace)
  THEN "SHELL_STRING_REJECTED"
  ELSE IF i.args.type # "array" THEN "VALIDATION_ERROR"
  ELSE IF \E k \in 1..Len(i.args.items) : BadArg(i.args.items[k])
  THEN LET k == CHOOSE n \in 1..Len(i.args.items) :
                  /\ BadArg(i.args.items[n])
                  /\ \A m \in 1..(n - 1) : ~BadArg(i.args.items[m])
       IN  IF i.args.items[k].type # "string" THEN "VALIDATION_ERROR"
           ELSE "SHELL_STRING_REJECTED"
  ELSE IF \/ i.cwd.type \notin {"undefined", "string"}
          \/ i.policy_ref.type \notin {"undefined", "string"}
          \/ i.requested_mode \notin {Undefined, Str(<<STRICT>>), Str(<<PERMISSIVE>>)}
  THEN "VALIDATION_ERROR"
  ELSE "none"

\* C24 (amended): the checks run in the order: object, source tag, session_id,
\* turn_id, agent_id and command present and not blank (VALIDATION_ERROR);
\* the command, with the whitespace at its ends removed, free of whitespace and
\* of the listed metacharacters (SHELL_STRING_REJECTED); args a sequence
\* (VALIDATION_ERROR); each element in turn a string (VALIDATION_ERROR)
\* without CR or LF (SHELL_STRING_REJECTED); cwd, policy_ref and
\* requested_mode of the right type if present (VALIDATION_ERROR). The first
\* check that fails gives the reason code; a proposal that passes them all is
\* accepted with the command without the whitespace at its ends and the args
\* unchanged.
C24_ValidationClassification ==
  Validated =>
    LET i == erq.input
        r == eres.result
    IN  /\ r.valid <=> FirstRejection(i) = "none"
        /\ ~r.valid => r.reason_code = FirstRejection(i)
        /\ r.valid => /\ TrimmedTo(i.command.text, r.command)
                      /\ r.command # <<>>
                      /\ r.args = i.args.items

\* a command with whitespace at an end is accepted without it
C24_Witness ==
  /\ Validated
  /\ eres.result.valid
  /\ eres.result.command # erq.input.command.text
  /\ HasAny(erq.input.command.text, {"\n", "\r"})

\* an empty command is rejected as a missing field
C24_EmptyCommand ==
  /\ Validated
  /\ erq.input.command = Str(<<>>)
  /\ ~MalformedAsListed(erq.input)
  /\ eres.result.reason_code = "VALIDATION_ERROR"

\* ------------------------------------------------------------------ C23
\* C23: a call of the adapter with a proposal that fails validation ends in
\* that one step with STOP, the validation's reason code (SHELL_STRING_REJECTED
\* or VALIDATION_ERROR) and executed=false, and neither the scope lookup, the
\* token store, the pipeline with its evaluator nor the kernel has run: no
\* token is issued, retrieved or used, no audit record appended, nothing spawned.
C23_RejectedBeforeEvaluation ==
  [][ \A rq \in RejectedInputs :
        (FirstRejection(rq[1]) # "none"
           /\ executeWithOpenClawAuthority(rq[1], rq[2], rq[3])) =>
          /\ ares'.stage = "done"
          /\ ares'.verdict = "STOP"
          /\ ares'.reason_code = FirstRejection(rq[1])
          /\ ares'.reason_code \in {"SHELL_STRING_REJECTED", "VALIDATION_ERROR"}
          /\ ~ares'.executed
          /\ ~ares'.scopeConsulted /\ ~ares'.storeConsulted
          /\ ~ares'.pipelineRan /\ ~ares'.kernelRan
          /\ UNCHANGED <<pipe, nextId, lastAudit, store, kpc, cur, kerr, usedTokenIds,
                         running, spawned, presented>> ]_vars

\* a shell string was turned away while an approved token was in the store
C23_Witness ==
  /\ ares.stage = "done"
  /\ ares.reason_code = "SHELL_STRING_REJECTED"
  /\ ~ares.executed
  /\ store # {}
  /\ pipe.hasToken

\* ------------------------------------------------------------------ C25
Hashed == erq.kind = "hash" /\ eres.done

SameMinute(t, u) == t \div MINUTE_MS = u \div MINUTE_MS

\* C25: two proposals for the same command, args and policy content built
\* within one minute window have the same proposal_hash; two proposals whose
\* argument vectors differ (if only in order) or that are built in different
\* minute windows have different proposal_hashes.
C25_ProposalHashDeterministic ==
  Hashed =>
    LET a == erq.first
        b == erq.second
    IN  /\ (/\ a.command = b.command /\ a.args = b.args /\ a.policy = b.policy
             /\ SameMinute(a.at, b.at)) => eres.first = eres.second
        /\ (a.args # b.args \/ ~SameMinute(a.at, b.at)) => eres.first # eres.second

\* the same request at two instants of one minute, and the arguments of a
\* request in another order
C25_Witness ==
  /\ Hashed
  /\ erq.first.at # erq.second.at
  /\ eres.first = eres.second

C25_WitnessOrder ==
  /\ Hashed
  /\ erq.first.args = <<"a", "b">> /\ erq.second.args = <<"b", "a">>
  /\ erq.first.at = erq.second.at
  /\ eres.first # eres.second

\* ------------------------------------------------------------------ C26
\* the request that ran and executed is made again
RunAgain ==
  /\ ares.stage = "done" /\ ares.executed
  /\ pipe.hasToken /\ pipe.token.token_id = ares.token_id
  /\ ares'.stage = "issued"
  /\ ares'.command = ares.command /\ ares'.args = ares.args

\* C26: when a request that executed is run again in the same minute window
\* under the same policy, the second run has the same proposal_hash and
\* environment fingerprint as the first and a token with another token_id;
\* the first token is in the registry, the second is not, and the kernel
\* does not answer TOKEN_REPLAYED for the second (it passes if the token is
\* unexpired and the policy unchanged); no token spawns more than once.
C26_ReplayKeyedOnTokenId ==
  [][ /\ (/\ RunAgain
           /\ SameMinute(pipe.token.issued_at, now)
           /\ pipe.token.policy_hash = hashPolicyFile(policyFile)) =>
            /\ pipe'.proposal_hash = pipe.proposal_hash
            /\ pipe'.token.environment_fingerprint = pipe.token.environment_fingerprint
            /\ pipe'.token.token_id # pipe.token.token_id
            /\ pipe.token.token_id \in usedTokenIds
            /\ pipe'.token.token_id \notin usedTokenIds
      /\ (ares.stage = "issued" /\ ares'.stage = "kernel") =>
            /\ kerr' # "TOKEN_REPLAYED"
            /\ (/\ now <= pipe.token.expires_at
                /\ pipe.token.policy_hash = hashPolicyFile(policyFile)) => kerr' = "OK"
      /\ \A i \in TokenIds : spawned'[i] <= 1 ]_vars

\* two tokens of one minute window, both used, each spawned once
C26_Witness ==
  /\ now < MINUTE_MS
  /\ ares.stage = "done" /\ ares.executed
  /\ \E i, j \in TokenIds :
       /\ i # j
       /\ {i, j} \subseteq usedTokenIds
       /\ spawned[i] = 1 /\ spawned[j] = 1
       /\ ares.token_id = j

\* ------------------------------------------------------------------ C27
\* the run has exited after its pipeline call
Exited == main.stage = "exited" /\ main.ran

\* C27: a run of the entry point whose pipeline decided STOP exits 1; one
\* whose kernel call raised, a denial or another error, exits 1; one that
\* decided HOLD exits 0 if fail_on_hold reads false and 1 otherwise; one
\* whose child ran to its end exits with the child's exit code. The kernel
\* is called on ALLOW only.
C27_ExitCodes ==
  /\ (main.stage \in {"allowed", "kernel"} \/ main.kernel.kind # "none") =>
       pipe.decision = "ALLOW"
  /\ Exited =>
       /\ pipe.decision = "STOP" => main.exit_code = 1
       /\ pipe.decision = "HOLD" =>
            main.exit_code = IF main.fail_on_hold \in {"false", "FALSE"} THEN 0 ELSE 1
       /\ (pipe.decision = "ALLOW" /\ main.kernel.kind \in {"denied", "error"}) =>
            main.exit_code = 1
       /\ (pipe.decision = "ALLOW" /\ main.child.kind = "exit") =>
            main.exit_code = main.child.code

\* a held run that exits 0, and a run that exits with its child's code
C27_Witness ==
  /\ Exited
  /\ pipe.decision = "HOLD"
  /\ main.fail_on_hold = "FALSE"
  /\ main.exit_code = 0

C27_WitnessChild ==
  /\ Exited
  /\ main.child.kind = "exit" /\ main.child.code # 0
  /\ main.exit_code = main.child.code

C27_WitnessDenied ==
  /\ Exited
  /\ main.kernel.kind = "denied"
  /\ main.exit_code = 1

\* ------------------------------------------------------------------ C28
\* C28 (as claimed): a call of executeWithAuthority that has ended has
\* returned a result with executed=true and the child's exit code, or has
\* raised a denial of one of the seven kinds.
C28_ResultOrTypedDenial ==
  (Exited /\ main.kernel.kind # "none") =>
    \/ /\ main.kernel.kind = "result"
       /\ main.kernel.executed
       /\ main.child.kind = "exit" => main.kernel.exit_code = main.child.code
    \/ /\ main.kernel.kind = "denied"
       /\ main.kernel.error_type \in {DenialKinds[i] : i \in 1..7}

\* ------------------------------------------------------------------ C29
\* C29 (as claimed): the kernel spawns only under a token that the pipeline
\* issued with ALLOW after its evaluation of the request, whatever
\* verification key the presented token carries.
C29_SpawnOnlyUnderIssuedToken ==
  [][ spawned' # spawned =>
        /\ pipe.hasToken /\ pipe.decision = "ALLOW"
        /\ cur.token = pipe.token ]_vars

\* a spawn under a token made from the HOLD token of a request the evaluator
\* denied, signed by the presenter's own key
C29_ForgedTokenSpawns ==
  /\ kpc = "marked"
  /\ pipe.decision = "HOLD" /\ pipe.call.verdict = "DENY"
  /\ cur.command = pipe.call.command /\ cur.args = pipe.call.args
  /\ cur.token.decision = "ALLOW"
  /\ cur.token.public_key_hex = AttackerKey

\* ------------------------------------------------------------------ C30
\* C30: no step takes a token id out of the in-memory set; markTokenUsed puts
\* the id in the set whether the record is persisted, the directory cannot be
\* made or the append fails; and a call that presents a token whose id is in
\* the set, unexpired and with decision ALLOW, is denied with TOKEN_REPLAYED,
\* whether or not the file has a record of it.
C30_UsedSetOnlyGrows ==
  [][ /\ usedTokenIds \subseteq usedTokenIds'
      /\ (kpc = "verified" /\ kpc' = "marked") => cur.token.token_id \in usedTokenIds'
      /\ (/\ kpc = "idle" /\ kpc' # "idle"
          /\ cur'.token.token_id \in usedTokenIds
          /\ now <= cur'.token.expires_at /\ cur'.token.decision = "ALLOW") =>
            (kpc' = "denied" /\ kerr' = "TOKEN_REPLAYED") ]_vars

\* a token whose record was not persisted is presented again and denied
C30_Witness ==
  /\ kpc = "denied" /\ kerr = "TOKEN_REPLAYED"
  /\ cur.token.token_id \in usedTokenIds
  /\ \A i \in 1..Len(usedTokensFile) : usedTokensFile[i].token_id # cur.token.token_id

\* ------------------------------------------------------------------ C31
\* C31: the token the pipeline holds expires five minutes after it was
\* issued, and a kernel call is denied with TOKEN_EXPIRED exactly when the
\* clock is past the expires_at of the token presented: at the instant
\* now = expires_at the TTL step lets the token through.
FiveMinutesMs == 5 * 60 * 1000

C31_TtlBoundary ==
  [][ /\ pipe'.hasToken => pipe'.token.expires_at = pipe'.token.issued_at + FiveMinutesMs
      /\ (kpc = "idle" /\ kpc' # "idle") =>
            ((now > cur'.token.expires_at) <=> (kpc' = "denied" /\ kerr' = "TOKEN_EXPIRED")) ]_vars

\* the issued token, presented at the instant it expires, passed all steps
C31_Witness ==
  /\ kpc = "verified"
  /\ pipe.hasToken /\ cur.token = pipe.token
  /\ now = cur.token.expires_at

\* the issued token, presented one tick later, is turned away
C31_WitnessExpired ==
  /\ kpc = "denied" /\ kerr = "TOKEN_EXPIRED"
  /\ pipe.hasToken /\ cur.token = pipe.token
  /\ now = cur.token.expires_at + TickMs

\* ------------------------------------------------------------------ C32
Hydrated == erq.kind = "hydrate" /\ eres.done /\ erq.fileState = "read"

\* a well-formed record with a token_id whose expires_at is absent or not in the past
LiveRecord(line, t) ==
  line.kind = "record" /\ line.hasTokenId /\ ~recordExpired(line, t)

\* a record whose expires_at is in the past
ExpiredRecord(line, t) ==
  line.kind = "record" /\ line.hasTokenId /\ recordExpired(line, t)

\* C32: after initRegistry over a file that was read, the token_id of every
\* well-formed record whose expires_at is absent or not in the past is in the
\* set; the id of a record whose expires_at is in the past is not in the set
\* unless another record gives it; the file is as it was.
C32_HydrationAsClaimed ==
  Hydrated =>
    /\ \A i \in 1..Len(erq.lines) :
         LiveRecord(erq.lines[i], erq.at) => erq.lines[i].token_id \in eres.ids
    /\ \A i \in 1..Len(erq.lines) :
         (/\ ExpiredRecord(erq.lines[i], erq.at)
          /\ \A j \in 1..Len(erq.lines) :
               LiveRecord(erq.lines[j], erq.at) =>
                 erq.lines[j].token_id # erq.lines[i].token_id)
           => erq.lines[i].token_id \notin eres.ids
    /\ eres.lines = erq.lines

\* what holds of the loop: the claim, for the lines before the first line it
\* throws on; no line after that one is looked at
FirstThrow(lines) ==
  IF \E i \in 1..Len(lines) : lineThrows(lines[i])
  THEN CHOOSE i \in 1..Len(lines) :
         lineThrows(lines[i]) /\ \A j \in 1..(i - 1) : ~lineThrows(lines[j])
  ELSE Len(lines) + 1

C32_HydrationUpToFirstThrow ==
  Hydrated =>
    /\ eres.ids = {erq.lines[i].token_id :
                     i \in {k \in 1..(FirstThrow(erq.lines) - 1) :
                              LiveRecord(erq.lines[k], erq.at)}}
    /\ eres.lines = erq.lines

\* a truncated final line, and the records before it are in the set
C32_WitnessTruncated ==
  /\ Hydrated /\ Len(erq.lines) >= 2
  /\ erq.lines[Len(erq.lines)].kind = "malformed"
  /\ FirstThrow(erq.lines) = Len(erq.lines)
  /\ eres.ids # {}

\* ------------------------------------------------------------------ C33
IsOutcome(e) == e.kind = "outcome"
IsIssuance(e) == e.kind = "pipeline" /\ e.event \in {"TOKEN_ISSUED_ALLOW", "TOKEN_ISSUED_HOLD"}
TrailIs(i, e) == i \in 1..Len(trail) /\ trail[i] = e

\* C33: in the trail of a process, every outcome record of the kernel for a
\* token comes after the TOKEN_ISSUED record of that token and no TOKEN_ISSUED
\* record of it comes after one; every call of the kernel is followed by one
\* outcome record, which is executed=false with the error_type of the denial
\* directly after the call, or executed=true directly after mark_used and
\* directly before spawn; and no outcome record, mark_used or spawn stands
\* anywhere else.
C33_IssuanceThenOutcome ==
  /\ \A j \in 1..Len(trail) :
       IsOutcome(trail[j]) =>
         /\ \E i \in 1..(j - 1) :
              IsIssuance(trail[i]) /\ trail[i].token_id = trail[j].token_id
         /\ \A i \in (j + 1)..Len(trail) :
              IsIssuance(trail[i]) => trail[i].token_id # trail[j].token_id
  /\ \A i \in 1..Len(trail) :
       \E id \in {trail[i].token_id} :
         /\ trail[i].kind = "call" =>
              IF i = Len(trail) THEN kpc \in {"verified", "denied"}
              ELSE \/ trail[i + 1] = markUsedEvent(id)
                   \/ /\ trail[i + 1] = deniedEvent(id, trail[i + 1].error_type)
                      /\ trail[i + 1].error_type # "none"
         /\ trail[i].kind = "mark_used" =>
              /\ TrailIs(i - 1, callEvent(id))
              /\ IF i = Len(trail) THEN kpc = "marked"
                 ELSE /\ trail[i + 1] = executedEvent(id)
                      /\ TrailIs(i + 2, spawnEvent(id))
         /\ (IsOutcome(trail[i]) /\ ~trail[i].executed) => TrailIs(i - 1, callEvent(id))
         /\ (IsOutcome(trail[i]) /\ trail[i].executed) =>
              /\ TrailIs(i - 1, markUsedEvent(id))
              /\ TrailIs(i + 1, spawnEvent(id))
         /\ trail[i].kind = "spawn" => TrailIs(i - 1, executedEvent(id))

\* a token was issued, executed, presented again and denied
C33_Witness ==
  \E i, j \in 1..Len(trail) :
    /\ i < j
    /\ IsOutcome(trail[i]) /\ trail[i].executed
    /\ trail[j] = deniedEvent(trail[i].token_id, "TOKEN_REPLAYED")

\* ------------------------------------------------------------------ C34
EarlyDenials == {"TOKEN_EXPIRED", "DECISION_NOT_ALLOW", "TOKEN_REPLAYED"}

\* C34: a call that is denied at step 1, 2 or 3 has run no statement that
\* reads the policy file, hashes, computes the environment fingerprint or
\* verifies a signature.
C34_NothingExpensiveBeforeReplayCheck ==
  (kpc = "denied" /\ kerr \in EarlyDenials) =>
    \A i \in 1..Len(statementsRun(kerr)) : ~statementsRun(kerr)[i].expensive

\* what holds: between step 1 and the denial at step 1, 2 or 3 nothing
\* expensive is run; the fingerprint is computed before step 1
C34_OnlyFingerprintBeforeReplayCheck ==
  (kpc = "denied" /\ kerr \in EarlyDenials) =>
    \A i \in 1..Len(statementsRun(kerr)) :
      statementsRun(kerr)[i].expensive =>
        statementsRun(kerr)[i].calls = "buildEnvironmentFingerprint"

\* ------------------------------------------------------------------ C35
\* the file has a record of the token id
Persisted(tokenId) ==
  \E i \in 1..Len(usedTokensFile) : usedTokensFile[i] = Record(tokenId, NoExpiry)

\* C35: a kernel call that presents an unexpired token whose record is in the
\* file is denied with TOKEN_REPLAYED, in the process that used the token
\* and in every process started after it, and no token spawns twice.
C35_NoReuseAcrossRestart ==
  [][ /\ (/\ kpc = "idle" /\ kpc' # "idle"
          /\ Persisted(cur'.token.token_id)
          /\ now <= cur'.token.expires_at /\ cur'.token.decision = "ALLOW") =>
            (kpc' = "denied" /\ kerr' = "TOKEN_REPLAYED")
      /\ \A id \in TokenIds : spawned'[id] <= 1 ]_vars

\* ------------------------------------------------------------------ C36
\* the loop came to the record of the presented token, the record has an
\* expires_at, and the id is not in the set: the TTL cleanup left it out
LeftOutAsExpired ==
  /\ erq.kind = "replay" /\ eres.done
  /\ erq.token.token_id \notin eres.ids
  /\ \E i \in 1..(FirstThrow(erq.lines) - 1) :
       /\ erq.lines[i].kind = "record" /\ erq.lines[i].token_id = erq.token.token_id
       /\ erq.lines[i].expires_at.kind = "instant"

C36_WitnessAtInstant ==
  /\ erq.kind = "replay" /\ eres.done
  /\ erq.lines = <<Record(erq.token.token_id, ExpiresAt(erq.token.expires_at))>>
  /\ erq.startAt = erq.token.expires_at /\ erq.callAt = erq.startAt
  /\ eres.error_type = "TOKEN_REPLAYED"

\* ------------------------------------------------------------------ C37
\* all seven checks passed under the token and its child could not be started
Burned(tokenId) == \E i \in 1..Len(trail) : trail[i] = childEvent(tokenId, "error")

KernelEntered == kpc = "idle" /\ kpc' # "idle"

\* C37 as stated: every later presentation of a burned token is denied with
\* TOKEN_REPLAYED.
C37_BurnedAlwaysReplayed ==
  [][ (KernelEntered /\ Burned(cur'.token.token_id)) =>
        (kpc' = "denied" /\ kerr' = "TOKEN_REPLAYED") ]_vars

\* C37: the id of a burned token stays in the registry and spawn was called
\* once under it; every later presentation of the token is denied, with
\* TOKEN_REPLAYED while the token is unexpired and with TOKEN_EXPIRED after.
C37_BurnedTokenDenied ==
  [][ /\ \A id \in TokenIds :
           Burned(id) => (id \in usedTokenIds /\ id \in usedTokenIds' /\ spawned'[id] = 1)
      /\ (KernelEntered /\ Burned(cur'.token.token_id)) =>
           /\ kpc' = "denied"
           /\ kerr' = IF now > cur'.token.expires_at THEN "TOKEN_EXPIRED"
                      ELSE "TOKEN_REPLAYED" ]_vars

\* a burned token was presented again and turned away as a replay
C37_Witness ==
  \E i, j \in 1..Len(trail) :
    /\ i < j
    /\ trail[i].kind = "child" /\ trail[i].event = "error"
    /\ trail[j] = deniedEvent(trail[i].token_id, "TOKEN_REPLAYED")

\* after a burned token, the launch is tried again under a new token
C37_WitnessRetry ==
  \E i, j \in 1..Len(trail) :
    /\ i < j
    /\ trail[i].kind = "child" /\ trail[i].event = "error"
    /\ trail[j].kind = "spawn" /\ trail[j].token_id # trail[i].token_id

\* a call on the stored-token path ends its work with the store in this step:
\* its kernel call raised at once, or its child is done; hash is the
\* proposal_hash of its step 2 and token the token it handed to the kernel
StoredCallEnds(hash, token) ==
  \/ /\ ares.stage = "kernel" /\ ares.stored /\ ares'.stage = "done"
     /\ hash = ares.proposal_hash /\ token = cur.token
  \/ \E s \in suspended :
       /\ s \notin suspended'
       /\ s.frame.stored
       /\ hash = s.frame.proposal_hash /\ token = s.token

HandedHashes == {ares.proposal_hash} \cup {s.frame.proposal_hash : s \in suspended}
HandedTokens == {cur.token} \cup {s.token : s \in suspended}

\* C38 (as stated): when a call on the stored-token path ends, the token it
\* retrieved and handed to the kernel is no longer stored, a different token
\* that is stored under the same proposal hash (stored by the approver while
\* the call awaited the child) is still stored and retrievable, and no token
\* has spawned more than once
C38_RemovesOnlyItsToken ==
  [][ /\ \A hash \in HandedHashes, token \in HandedTokens :
           StoredCallEnds(hash, token) =>
             /\ \A e \in store' : e.token # token
             /\ \A e \in store :
                  (e.key = hash /\ e.token # token) =>
                    /\ e \in store'
                    /\ (now <= e.token.expires_at =>
                          retrieveToken(store', hash, now') =
                            [found |-> TRUE, token |-> e.token])
      /\ \A id \in TokenIds : spawned'[id] <= 1 ]_vars

\* C38: what holds of the code: when a call on the stored-token path ends,
\* nothing is stored under its proposal hash, whichever token was there, and
\* no token has spawned more than once
C38_RemovesWhateverIsStored ==
  [][ /\ \A hash \in HandedHashes, token \in HandedTokens :
           StoredCallEnds(hash, token) =>
             /\ \A e \in store' : e.token # token /\ e.key # hash
             /\ ~retrieveToken(store', hash, now').found
      /\ \A id \in TokenIds : spawned'[id] <= 1 ]_vars

\* a suspended call on a stored token, and under its proposal hash another
\* token, stored meanwhile
C38_WitnessStoredMeanwhile ==
  \E s \in suspended, e \in store :
    /\ s.frame.stored
    /\ e.key = s.frame.proposal_hash
    /\ e.token.token_id # s.token.token_id
    /\ now <= e.token.expires_at

\* a second call on the stored token of a suspended call was denied as a replay
C38_WitnessSecondCall ==
  \E s \in suspended :
    /\ s.frame.stored
    /\ ares.stage = "done" /\ ares.stored
    /\ ares.token_id = s.token.token_id
    /\ ares.reason_code = "TOKEN_REPLAYED"
    /\ spawned[s.token.token_id] = 1

\* a call whose frame carries the token the pipeline issued for it
CarriesPipelineToken(frame, token) ==
  frame.pipelineRan /\ frame.token_id # ForgedId /\ frame.token_id = token.token_id

\* C39 (as stated): in every adapter result that carries a token, the
\* proposal_hash of the result is the proposal_hash of that token and the
\* hash of the proposal given to the kernel
C39_ResultHashIsTokenHash ==
  /\ (pipe.hasToken /\ CarriesPipelineToken(ares, pipe.token)) =>
       /\ ares.proposal_hash = pipe.token.proposal_hash
       /\ ares.proposal_hash = canonicalHash(pipe.proposal)
  /\ (ares.stage = "kernel" /\ kpc # "idle") =>
       /\ ares.token_id = cur.token.token_id
       /\ ares.proposal_hash = cur.token.proposal_hash
       /\ ares.proposal_hash = canonicalHash(cur.proposal)
  /\ \A s \in suspended :
       /\ s.frame.proposal_hash = s.token.proposal_hash
       /\ s.frame.proposal_hash = canonicalHash(s.proposal)

\* C39: what holds of the code: the token and the proposal given to the kernel
\* agree with each other, and with the proposal_hash of the result when the
\* two readings of the clock fall in one minute window
C39_TokenHashIsProposalHash ==
  /\ (pipe.hasToken /\ CarriesPipelineToken(ares, pipe.token)) =>
       /\ pipe.token.proposal_hash = canonicalHash(pipe.proposal)
       /\ (floorToMinute(pipe.token.issued_at) = ares.proposal_hash[6]
             /\ pipe.proposal.policy_hash = ares.proposal_hash[4]) =>
            ares.proposal_hash = pipe.token.proposal_hash
  /\ \A s \in suspended : s.token.proposal_hash = canonicalHash(s.proposal)

\* a call ended with ALLOW on a token issued in a later minute window than
\* the one of its proposal_hash
C39_WitnessAcrossMinute ==
  /\ ares.stage = "done" /\ ares.verdict = "ALLOW" /\ ares.pipelineRan
  /\ ares.proposal_hash[6] # floorToMinute(pipe.token.issued_at)
  /\ pipe.token.token_id = ares.token_id

====
